---- MODULE Spec2Model ----
(***************************************************************************)
(* BlankLogo video worker (apps/worker/python): the watermark detector     *)
(* with its gap-filling pass (detector.py), the inpaint dispatcher         *)
(* (inpainter.py) and the processing pipeline with its job status tracker  *)
(* (processor.py).                                                         *)
(*                                                                         *)
(* Conventions.  Python lists are sequences, so index i of the source is   *)
(* index i+1 here.  None is the empty tuple, which is falsy like None, so  *)
(* the source's truth tests (`if before_bbox:`) read `# None`.  A float    *)
(* confidence c is the integer 100*c, and an Optional[float] is None or    *)
(* the one-element tuple <<100*c>>.  A dict is a function on its keys: a   *)
(* key the source never set is not in its DOMAIN.                          *)
(***************************************************************************)
EXTENDS Integers, Sequences, FiniteSets, TLC

\* ------------------------------------------------------------------ bounds
\* Longest frame list handed to detect_video / inpaint_video / the pipeline.
MaxFrames == 5

\* Most VideoProcessor objects constructed, one after the other.
MaxJobs == 2

\* Most WatermarkInpainter objects constructed, one after the other.
MaxInpainters == 2

\* ------------------------------------------------------------ shared values
None == <<>>

\* detector.py:63, confidence_threshold: float = 0.5 (scaled by 100).
confidence_threshold == 50

\* Two boxes none of whose coordinates coincide, so that a box mixed or
\* averaged from the two is neither of them.
BBoxA == <<0, 0, 2, 2>>
BBoxB == <<4, 4, 8, 8>>
BBoxes == {BBoxA, BBoxB}

\* Confidences just below and exactly at the threshold.
Confidences == {49, 50}

\* What the YOLO model returns for one frame (result.boxes): the candidate
\* boxes, highest confidence first.
ModelOutputs ==
    {<<>>} \cup {<<[conf |-> c, xyxy |-> b]>> : c \in Confidences, b \in BBoxes}

\* ----------------------------------------------------------------- state
VARIABLES
    \* detector.py, one call of WatermarkDetector.detect_video
    dv_pc,            \* "idle", "first_pass", "returned"
    dv_frames,        \* number of frames in the list it was given
    observed,         \* what the model returned for each frame detected so far
    results,          \* detect_video: results
    missed_indices,   \* detect_video: missed_indices
    bbox_centers,     \* detect_video: bbox_centers
    direct,           \* history: results as the first pass left them
    \* processor.py, one VideoProcessor and its process() call
    pc,               \* "none", "constructed", the line process_inpaint is at, "raised"
    jobs,             \* number of VideoProcessor objects constructed so far
    mode,             \* VideoProcessor.mode
    progress_callback,\* TRUE when process() was given a progress_callback
    status,           \* VideoProcessor.status, a JobStatus
    frames,           \* process_inpaint: frames
    processor_detector, \* VideoProcessor._detector
    yolo_model,       \* detector.py: the module global _yolo_model
    error,            \* the exception that left process(), "" while there is none
    emitted,          \* history: the values progress_callback was called with
    stage_history,    \* history: the values current_stage has taken
    progress_history, \* history: the values progress has been set to
    \* inpainter.py, the WatermarkInpainter objects and one inpaint_video call
    ip_pc,            \* "none", "ready", "loop", "returned", "raised"
    inpainters,       \* number of WatermarkInpainter objects constructed so far
    lama_model,       \* the module global _lama_model: "None", "big-lama", "fallback"
    use_fallback,     \* WatermarkInpainter.use_fallback of the newest object
    iv_frames,        \* inpaint_video: frames
    iv_detections,    \* inpaint_video: detections
    iv_results,       \* inpaint_video: results
    lama_loads,       \* history: how often get_lama_model tried to load the model
    inpaint_calls,    \* history: the inpaint_frame calls of this inpaint_video
    \* processor.py, one call of VideoProcessor.save_video_frames
    sv_pc,            \* "idle", "start", "write", "wait", "mux", "returned", "raised"
    sv_frames,        \* save_video_frames: frames
    sv_written,       \* the frames written to the encoder's stdin, in order
    encoder,          \* the ffmpeg encoder process: "none", "running", "exited"
    stdin_closed,     \* TRUE once process.stdin.close() was called
    will_encode,      \* TRUE when this encoder run is one that produces its output
    temp_file,        \* the file output_path + ".temp.mp4": "absent", "silent_video"
    output_file,      \* the file output_path: "absent", "muxed", "silent_video"
    sv_error,         \* the exception that left save_video_frames, "" if none
    mux_result,       \* history: "" before the audio mux ran, then "ok" or "failed"
    \* processor.py, one call of VideoProcessor.process in mode CROP
    cr_pc,            \* "idle", "L226", "L231", "L246", "L254", "returned", "raised"
    cr_input,         \* <<width, height>> of the video at input_path
    crop_pixels,      \* process_crop: crop_pixels
    crop_position,    \* process_crop: crop_position
    width,            \* process_crop: width, None before the probe
    height,           \* process_crop: height, None before the probe
    crop_filter,      \* process_crop: crop_filter "crop=w:h:x:y" as [w, h, x, y], or None
    ffmpeg_runs,      \* history: the ffmpeg runs process_crop has started
    cr_output,        \* the rows and columns of the input kept in the output file, or None
    cr_result,        \* the dict process_crop returned, or None
    cr_error,         \* the exception that left process_crop, "" if none
    \* inpainter.py, one call of WatermarkInpainter.create_mask
    mk_pc,            \* "idle", "called", "returned"
    mk_frame_shape,   \* create_mask: frame_shape
    mk_bbox,          \* create_mask: bbox
    mk_padding,       \* create_mask: padding
    mk_mask,          \* the mask returned, or None
    \* server.py and runpod_handler.py
    job_progress,     \* server.py: the dict job_progress, a function on its keys
    job_dir,          \* per job id, TEMP_DIR / job_id: "absent", "input", "partial", "output"
    task_pc,          \* per job id, process_task: "none", "queued", "L246", "L251",
                      \*   "process", "L260", "except", "done"
    task_mode,        \* per job id, the mode string of the request
    task_emits,       \* per job id, the progress values process() has yet to emit
    process_failed,   \* history, per job id: process() raised for the current job
    handed,           \* history, per job id: a file of the current job was sent to a client
    cleaned,          \* history, per job id: cleanup_job returned, no request for the id since
    response,         \* the last answer of /status, of /download or of the runpod
                      \*   handler (runpod_handler.py), or None
    \* detector.py and inpainter.py, the threads of concurrent jobs in
    \* get_yolo_model and get_lama_model
    ml_pc,            \* per thread: "idle", "check", "load", "return", "done", "raised"
    ml_fn,            \* per thread: the function it is in, "yolo" or "lama"
    ml_held,          \* per thread: the handle the function returned to it, 0 for none
    ml_global,        \* the globals _yolo_model and _lama_model: 0 for None, t for the
                      \*   model object thread t built, -t for t's {"fallback": True}
    ml_loads,         \* history, per function: the model objects built so far
    \* detector.py, one call of WatermarkDetector.detect_frame
    df_pc,            \* "idle", "called", "returned"
    df_boxes,         \* result.boxes, what the model returned for the frame
    df_result,        \* the dict detect_frame returned, or None
    \* inpainter.py, one call of WatermarkInpainter.inpaint_frame on the model path
    pd_pc,            \* "idle", "L188", "L189", "L192", "returned"
    pd_shape,         \* <<h, w>> of frame and mask
    pd_mask,          \* the pixels <<y, x>> of mask that are 255
    image_padded,     \* inpaint_frame: image_padded, as [shape, src], or None
    mask_padded,      \* inpaint_frame: mask_padded, as [shape, marked], or None
    pd_result,        \* the shape of the frame inpaint_frame returned, or None
    \* processor.py, one call of JobStatus.frame_progress
    fp_pc,            \* "idle", "L71", "L83", "returned"
    fp_current,       \* frame_progress: current
    fp_total,         \* frame_progress: total
    fp_status,        \* the JobStatus fields processed_frames and total_frames
    fp_pct,           \* frame_progress: pct, None before it is computed
    fp_logged         \* the messages this call handed to self.log, as [current, total, pct]

dv_vars == <<dv_pc, dv_frames, observed, results, missed_indices, bbox_centers, direct>>

pl_vars == <<pc, jobs, mode, progress_callback, status, frames, processor_detector,
             yolo_model, error, emitted, stage_history, progress_history>>

ip_vars == <<ip_pc, inpainters, lama_model, use_fallback, iv_frames, iv_detections,
             iv_results, lama_loads, inpaint_calls>>

sv_vars == <<sv_pc, sv_frames, sv_written, encoder, stdin_closed, will_encode,
             temp_file, output_file, sv_error, mux_result>>

cr_vars == <<cr_pc, cr_input, crop_pixels, crop_position, width, height, crop_filter,
             ffmpeg_runs, cr_output, cr_result, cr_error>>

mk_vars == <<mk_pc, mk_frame_shape, mk_bbox, mk_padding, mk_mask>>

sr_vars == <<job_progress, job_dir, task_pc, task_mode, task_emits, process_failed,
             handed, cleaned, response>>

ml_vars == <<ml_pc, ml_fn, ml_held, ml_global, ml_loads>>

df_vars == <<df_pc, df_boxes, df_result>>

pd_vars == <<pd_pc, pd_shape, pd_mask, image_padded, mask_padded, pd_result>>

fp_vars == <<fp_pc, fp_current, fp_total, fp_status, fp_pct, fp_logged>>

vars == <<dv_vars, pl_vars, ip_vars, sv_vars, cr_vars, mk_vars, sr_vars, ml_vars, df_vars, pd_vars, fp_vars>>

\* ------------------------------------------------------------ detector.py
\* A detect_frame for which a confidence equal to the threshold is too low.
detect_frame_strict(boxes) ==
    IF Len(boxes) = 0
    THEN [detected |-> FALSE, bbox |-> None, confidence |-> None, center |-> None]
    ELSE LET box == boxes[1]
             confidence == box.conf
             x1 == box.xyxy[1]
             y1 == box.xyxy[2]
             x2 == box.xyxy[3]
             y2 == box.xyxy[4]
         IN  IF confidence <= confidence_threshold
             THEN [detected |-> FALSE, bbox |-> None,
                   confidence |-> <<confidence>>, center |-> None]
             ELSE [detected |-> TRUE, bbox |-> <<x1, y1, x2, y2>>,
                   confidence |-> <<confidence>>,
                   center |-> <<(x1 + x2) \div 2, (y1 + y2) \div 2>>]

\* WatermarkDetector.detect_frame, on the model's boxes for the frame.
detect_frame(boxes) ==
    IF Len(boxes) = 0
    THEN [detected |-> FALSE, bbox |-> None, confidence |-> None, center |-> None]
    ELSE LET box == boxes[1]
             confidence == box.conf
             x1 == box.xyxy[1]
             y1 == box.xyxy[2]
             x2 == box.xyxy[3]
             y2 == box.xyxy[4]
         IN  IF confidence < confidence_threshold
             THEN [detected |-> FALSE, bbox |-> None,
                   confidence |-> <<confidence>>, center |-> None]
             ELSE [detected |-> TRUE, bbox |-> <<x1, y1, x2, y2>>,
                   confidence |-> <<confidence>>,
                   center |-> <<(x1 + x2) \div 2, (y1 + y2) \div 2>>]

\* _fill_missed_detections, "Look backwards for valid bbox": the while loop
\* from before_idx down to the first index of the list.
RECURSIVE LookBackwards(_, _)
LookBackwards(res, before_idx) ==
    IF before_idx >= 1
    THEN IF res[before_idx]["detected"]
         THEN res[before_idx]["bbox"]
         ELSE LookBackwards(res, before_idx - 1)
    ELSE None

\* _fill_missed_detections, "Look forwards for valid bbox".
RECURSIVE LookForwards(_, _)
LookForwards(res, after_idx) ==
    IF after_idx <= Len(res)
    THEN IF res[after_idx]["detected"]
         THEN res[after_idx]["bbox"]
         ELSE LookForwards(res, after_idx + 1)
    ELSE None

\* The three assignments results[idx]["bbox"] = ..., ["detected"] = True,
\* ["interpolated"] = True on one dict.
SetFilled(d, bbox) ==
    [k \in DOMAIN d \cup {"interpolated"} |->
        IF k = "bbox" THEN bbox
        ELSE IF k \in {"detected", "interpolated"} THEN TRUE
        ELSE d[k]]

\* A gap-filler that prefers the later neighbour.
FillOneForwardFirst(res, idx) ==
    LET before_bbox == LookBackwards(res, idx - 1)
        after_bbox == LookForwards(res, idx + 1)
    IN  IF after_bbox # None
        THEN [res EXCEPT ![idx] = SetFilled(@, after_bbox)]
        ELSE IF before_bbox # None
        THEN [res EXCEPT ![idx] = SetFilled(@, before_bbox)]
        ELSE res

\* A gap-filler that averages the two neighbours when both exist.
FillOneAveraging(res, idx) ==
    LET before_bbox == LookBackwards(res, idx - 1)
        after_bbox == LookForwards(res, idx + 1)
    IN  IF before_bbox # None /\ after_bbox # None
        THEN [res EXCEPT ![idx] =
                 SetFilled(@, [c \in 1..4 |-> (before_bbox[c] + after_bbox[c]) \div 2])]
        ELSE IF before_bbox # None
        THEN [res EXCEPT ![idx] = SetFilled(@, before_bbox)]
        ELSE IF after_bbox # None
        THEN [res EXCEPT ![idx] = SetFilled(@, after_bbox)]
        ELSE res

\* A gap-filler that invents a box when no neighbour has one.
FillOneDefaultBox(res, idx) ==
    LET before_bbox == LookBackwards(res, idx - 1)
        after_bbox == LookForwards(res, idx + 1)
    IN  IF before_bbox # None
        THEN [res EXCEPT ![idx] = SetFilled(@, before_bbox)]
        ELSE IF after_bbox # None
        THEN [res EXCEPT ![idx] = SetFilled(@, after_bbox)]
        ELSE [res EXCEPT ![idx] = SetFilled(@, <<0, 0, 1, 1>>)]

\* One iteration of the for loop of _fill_missed_detections: the list after
\* the iteration for idx, given the list before it.
FillOne(res, idx) ==
    LET before_bbox == LookBackwards(res, idx - 1)
        after_bbox == LookForwards(res, idx + 1)
    IN  IF before_bbox # None
        THEN [res EXCEPT ![idx] = SetFilled(@, before_bbox)]
        ELSE IF after_bbox # None
        THEN [res EXCEPT ![idx] = SetFilled(@, after_bbox)]
        ELSE res

\* WatermarkDetector._fill_missed_detections: the loop over missed_indices in
\* list order, each iteration working on the list the earlier ones mutated.
RECURSIVE fill_missed_detections(_, _)
fill_missed_detections(res, missed) ==
    IF missed = <<>>
    THEN res
    ELSE fill_missed_detections(FillOne(res, Head(missed)), Tail(missed))

\* A first pass that records every index as missed.
MissedAfterAlways(missed, idx, detection) == Append(missed, idx)

\* detect_video, first pass: missed_indices after the frame at idx.
MissedAfter(missed, idx, detection) ==
    IF detection["detected"] THEN missed ELSE Append(missed, idx)

\* detect_video, first pass: bbox_centers after one frame.
CentersAfter(centers, detection) ==
    IF detection["detected"]
    THEN Append(centers, detection["center"])
    ELSE Append(centers, None)

\* A second pass that fills the first gap only.
SecondPassFirstGapOnly(res, missed) ==
    IF missed # <<>> THEN FillOne(res, Head(missed)) ELSE res

\* detect_video, second pass.
SecondPass(res, missed) ==
    IF missed # <<>> THEN fill_missed_detections(res, missed) ELSE res

\* detect_video on a whole list of model outputs, one per frame.
RECURSIVE FirstPass(_, _, _, _)
FirstPass(outs, idx, res, missed) ==
    IF idx > Len(outs)
    THEN [results |-> res, missed_indices |-> missed]
    ELSE LET detection == detect_frame(outs[idx])
         IN  FirstPass(outs, idx + 1, Append(res, detection),
                       MissedAfter(missed, idx, detection))

detect_video(outs) ==
    LET p == FirstPass(outs, 1, <<>>, <<>>)
    IN  SecondPass(p.results, p.missed_indices)

\* ---------------------------------------------------------------- actions
\* A caller hands detect_video a list of n frames.
DV_Call(n) ==
    /\ dv_pc = "idle"
    /\ dv_pc' = "first_pass"
    /\ dv_frames' = n
    /\ observed' = <<>>
    /\ results' = <<>>
    /\ missed_indices' = <<>>
    /\ bbox_centers' = <<>>
    /\ direct' = <<>>
    /\ UNCHANGED <<pl_vars, ip_vars, sv_vars, cr_vars, mk_vars, sr_vars, ml_vars, df_vars, pd_vars, fp_vars>>

\* First pass, one frame: detect_frame and the bookkeeping of the loop body.
DV_DetectFrame(boxes) ==
    /\ dv_pc = "first_pass"
    /\ Len(results) < dv_frames
    /\ LET idx == Len(results) + 1
           detection == detect_frame(boxes)
       IN  /\ results' = Append(results, detection)
           /\ bbox_centers' = CentersAfter(bbox_centers, detection)
           /\ missed_indices' = MissedAfter(missed_indices, idx, detection)
    /\ observed' = Append(observed, boxes)
    /\ UNCHANGED <<dv_pc, dv_frames, direct>>
    /\ UNCHANGED <<pl_vars, ip_vars, sv_vars, cr_vars, mk_vars, sr_vars, ml_vars, df_vars, pd_vars, fp_vars>>

\* End of the first pass: the second pass and the return.
DV_SecondPass ==
    /\ dv_pc = "first_pass"
    /\ Len(results) = dv_frames
    /\ results' = SecondPass(results, missed_indices)
    /\ dv_pc' = "returned"
    /\ direct' = results
    /\ UNCHANGED <<dv_frames, observed, missed_indices, bbox_centers>>
    /\ UNCHANGED <<pl_vars, ip_vars, sv_vars, cr_vars, mk_vars, sr_vars, ml_vars, df_vars, pd_vars, fp_vars>>

\* The caller takes the result; the detector is free for the next video.
DV_Done ==
    /\ dv_pc = "returned"
    /\ dv_pc' = "idle"
    /\ dv_frames' = 0
    /\ observed' = <<>>
    /\ results' = <<>>
    /\ missed_indices' = <<>>
    /\ bbox_centers' = <<>>
    /\ direct' = <<>>
    /\ UNCHANGED <<pl_vars, ip_vars, sv_vars, cr_vars, mk_vars, sr_vars, ml_vars, df_vars, pd_vars, fp_vars>>

\* ----------------------------------------------------------- processor.py
\* JobStatus.__init__ (job_id and start_time are not modelled).
JobStatusInit ==
    [current_stage |-> "initializing", progress |-> 0, total_frames |-> 0,
     processed_frames |-> 0, watermarks_detected |-> 0, errors |-> <<>>]

\* JobStatus.log: only level "error" changes the job.
log(st, message, level) ==
    IF level = "error" THEN [st EXCEPT !.errors = Append(@, message)] ELSE st

\* JobStatus.update(stage, progress, message); an argument left out is "" for
\* the strings and None for the progress, <<p>> is progress=p.
update(st, stage, progress, message) ==
    LET s1 == IF stage # "" THEN [st EXCEPT !.current_stage = stage] ELSE st
        s2 == IF progress # None THEN [s1 EXCEPT !.progress = progress[1]] ELSE s1
    IN  IF message # "" THEN log(s2, message, "info") ELSE s2

\* JobStatus.summary (the clock readings elapsed_seconds and fps left out).
summary(st) ==
    [status |-> IF st.errors = <<>> THEN "completed" ELSE "failed",
     stage |-> st.current_stage,
     progress |-> st.progress,
     frames_processed |-> st.processed_frames,
     total_frames |-> st.total_frames,
     watermarks_detected |-> st.watermarks_detected,
     errors |-> st.errors]

\* `if progress_callback: progress_callback(v)`.
Emit(v) == IF progress_callback THEN Append(emitted, v) ELSE emitted

\* The histories after the job became st.
StagesAfter(st) ==
    IF st.current_stage # stage_history[Len(stage_history)]
    THEN Append(stage_history, st.current_stage)
    ELSE stage_history
ProgressAfter(st) == Append(progress_history, st.progress)

\* The parameters of WatermarkDetector.detect_video (detector.py:115) and the
\* arguments process_inpaint calls it with (processor.py:290-293).
detect_video_params == {"self", "frames"}
detect_video_call == [positional |-> <<"self", "frames">>,
                      keywords |-> {"progress_callback"}]

\* Python's argument binding: a call with more positional arguments than
\* parameters, or with a keyword that names no parameter, raises TypeError.
Binds(params, call) ==
    /\ Len(call.positional) <= Cardinality(params)
    /\ call.keywords \subseteq params

\* VideoProcessor(mode=...): a new processor with a fresh JobStatus.
NewProcessor(m) ==
    /\ pc \in {"none", "raised"}
    /\ jobs < MaxJobs
    /\ jobs' = jobs + 1
    /\ pc' = "constructed"
    /\ mode' = m
    /\ status' = JobStatusInit
    /\ processor_detector' = "None"
    /\ frames' = <<>>
    /\ error' = ""
    /\ emitted' = <<>>
    /\ progress_callback' = FALSE
    /\ stage_history' = <<JobStatusInit.current_stage>>
    /\ progress_history' = <<JobStatusInit.progress>>
    /\ UNCHANGED yolo_model
    /\ UNCHANGED <<dv_vars, ip_vars, sv_vars, cr_vars, mk_vars, sr_vars, ml_vars, df_vars, pd_vars, fp_vars>>

\* process() in mode INPAINT or AUTO: process_inpaint up to its first update.
Process(cb) ==
    /\ pc = "constructed"
    /\ mode \in {"inpaint", "auto"}
    /\ progress_callback' = cb
    /\ status' = update(status, "init", <<0>>, "Starting inpaint mode (YOLO + LAMA)")
    /\ stage_history' = StagesAfter(status')
    /\ progress_history' = ProgressAfter(status')
    /\ pc' = "L277"
    /\ UNCHANGED <<jobs, mode, frames, processor_detector, yolo_model, error, emitted>>
    /\ UNCHANGED <<dv_vars, ip_vars, sv_vars, cr_vars, mk_vars, sr_vars, ml_vars, df_vars, pd_vars, fp_vars>>

\* processor.py:277.
PI_Loading ==
    /\ pc = "L277"
    /\ status' = update(status, "loading", <<5>>, "Loading video frames...")
    /\ stage_history' = StagesAfter(status')
    /\ progress_history' = ProgressAfter(status')
    /\ pc' = "L278"
    /\ UNCHANGED <<jobs, mode, progress_callback, frames, processor_detector,
                   yolo_model, error, emitted>>
    /\ UNCHANGED <<dv_vars, ip_vars, sv_vars, cr_vars, mk_vars, sr_vars, ml_vars, df_vars, pd_vars, fp_vars>>

\* processor.py:278-279.
PI_CallbackLoading ==
    /\ pc = "L278"
    /\ emitted' = Emit(5)
    /\ pc' = "L281"
    /\ UNCHANGED <<jobs, mode, progress_callback, status, frames, processor_detector,
                   yolo_model, error, stage_history, progress_history>>
    /\ UNCHANGED <<dv_vars, ip_vars, sv_vars, cr_vars, mk_vars, sr_vars, ml_vars, df_vars, pd_vars, fp_vars>>

\* processor.py:281-283, load_video_frames: a container that cannot be opened
\* makes cap.read() return no frame, so it is the empty list and no exception.
PI_LoadFrames(n) ==
    /\ pc = "L281"
    /\ frames' = [i \in 1..n |-> i]
    /\ status' = update([status EXCEPT !.total_frames = n], "", None, "Loaded frames")
    /\ pc' = "L285"
    /\ UNCHANGED <<jobs, mode, progress_callback, processor_detector, yolo_model,
                   error, emitted, stage_history, progress_history>>
    /\ UNCHANGED <<dv_vars, ip_vars, sv_vars, cr_vars, mk_vars, sr_vars, ml_vars, df_vars, pd_vars, fp_vars>>

\* processor.py:285-286.
PI_CallbackLoaded ==
    /\ pc = "L285"
    /\ emitted' = Emit(15)
    /\ pc' = "L289"
    /\ UNCHANGED <<jobs, mode, progress_callback, status, frames, processor_detector,
                   yolo_model, error, stage_history, progress_history>>
    /\ UNCHANGED <<dv_vars, ip_vars, sv_vars, cr_vars, mk_vars, sr_vars, ml_vars, df_vars, pd_vars, fp_vars>>

\* A detecting update that reports less progress than the loading one.
PI_DetectingLowProgress ==
    /\ pc = "L289"
    /\ status' = update(status, "detecting", <<1>>, "Detecting watermarks with YOLO...")
    /\ stage_history' = StagesAfter(status')
    /\ progress_history' = ProgressAfter(status')
    /\ pc' = "L290"
    /\ UNCHANGED <<jobs, mode, progress_callback, frames, processor_detector,
                   yolo_model, error, emitted>>
    /\ UNCHANGED <<dv_vars, ip_vars, sv_vars, cr_vars, mk_vars, sr_vars, ml_vars, df_vars, pd_vars, fp_vars>>

\* processor.py:289.
PI_Detecting ==
    /\ pc = "L289"
    /\ status' = update(status, "detecting", <<15>>, "Detecting watermarks with YOLO...")
    /\ stage_history' = StagesAfter(status')
    /\ progress_history' = ProgressAfter(status')
    /\ pc' = "L290"
    /\ UNCHANGED <<jobs, mode, progress_callback, frames, processor_detector,
                   yolo_model, error, emitted>>
    /\ UNCHANGED <<dv_vars, ip_vars, sv_vars, cr_vars, mk_vars, sr_vars, ml_vars, df_vars, pd_vars, fp_vars>>

\* processor.py:290, `self.detector`: the lazy property builds a
\* WatermarkDetector, whose __init__ calls get_yolo_model; loading the weights
\* either succeeds (loaded = TRUE) or raises out of process().
PI_GetDetector(loaded) ==
    /\ pc = "L290"
    /\ IF processor_detector # "None"
       THEN /\ pc' = "L290_call"
            /\ UNCHANGED <<processor_detector, yolo_model, error>>
       ELSE IF yolo_model # "None" \/ loaded
       THEN /\ yolo_model' = "YOLO"
            /\ processor_detector' = "WatermarkDetector"
            /\ pc' = "L290_call"
            /\ UNCHANGED error
       ELSE /\ pc' = "raised"
            /\ error' = "ModelLoadError"
            /\ UNCHANGED <<processor_detector, yolo_model>>
    /\ UNCHANGED <<jobs, mode, progress_callback, status, frames, emitted,
                   stage_history, progress_history>>
    /\ UNCHANGED <<dv_vars, ip_vars, sv_vars, cr_vars, mk_vars, sr_vars, ml_vars, df_vars, pd_vars, fp_vars>>

\* processor.py:290-293, the call detect_video(frames, progress_callback=...):
\* detect_video takes no progress_callback, so binding the arguments raises
\* TypeError before any frame is looked at.  The rest of process_inpaint
\* (processor.py:294-338) is entered only if the call returns.
PI_CallDetectVideo ==
    /\ pc = "L290_call"
    /\ IF Binds(detect_video_params, detect_video_call)
       THEN /\ pc' = "L294"
            /\ UNCHANGED error
       ELSE /\ pc' = "raised"
            /\ error' = "TypeError"
    /\ UNCHANGED <<jobs, mode, progress_callback, status, frames, processor_detector,
                   yolo_model, emitted, stage_history, progress_history>>
    /\ UNCHANGED <<dv_vars, ip_vars, sv_vars, cr_vars, mk_vars, sr_vars, ml_vars, df_vars, pd_vars, fp_vars>>

InitPipeline ==
    /\ pc = "none"
    /\ jobs = 0
    /\ mode = "crop"
    /\ progress_callback = FALSE
    /\ status = JobStatusInit
    /\ frames = <<>>
    /\ processor_detector = "None"
    /\ yolo_model = "None"
    /\ error = ""
    /\ emitted = <<>>
    /\ stage_history = <<JobStatusInit.current_stage>>
    /\ progress_history = <<JobStatusInit.progress>>

Next ==
    \/ \E m \in {"inpaint", "auto"} : NewProcessor(m)
    \/ \E cb \in BOOLEAN : Process(cb)
    \/ PI_Loading
    \/ PI_CallbackLoading
    \/ \E n \in 0..MaxFrames : PI_LoadFrames(n)
    \/ PI_CallbackLoaded
    \/ PI_Detecting
    \/ \E loaded \in BOOLEAN : PI_GetDetector(loaded)
    \/ PI_CallDetectVideo

\* ----------------------------------------------------------- inpainter.py
Max(a, b) == IF a >= b THEN a ELSE b
Min(a, b) == IF a <= b THEN a ELSE b

\* Height and width of the frames of the videos (frame.shape[:2]).
FrameShape == <<24, 32>>

\* create_mask's default padding (inpainter.py:111).
DefaultPadding == 15

\* The indices a Python slice a:b selects on an axis of length n.
SliceIndices(a, b, n) ==
    LET lo == IF a < 0 THEN Max(0, a + n) ELSE Min(a, n)
        hi == IF b < 0 THEN Max(0, b + n) ELSE Min(b, n)
    IN  lo..(hi - 1)

\* WatermarkInpainter.create_mask.  The mask is zeros((h, w)) with the slice
\* [y1:y2, x1:x2] set to 255: pixel (y, x) is 255 iff y \in rows and x \in cols.
create_mask(frame_shape, bbox, padding) ==
    LET h == frame_shape[1]
        w == frame_shape[2]
        x1 == Max(0, bbox[1] - padding)
        y1 == Max(0, bbox[2] - padding)
        x2 == Min(w, bbox[3] + padding)
        y2 == Min(h, bbox[4] + padding)
    IN  [shape |-> <<h, w>>,
         rows |-> SliceIndices(y1, y2, h),
         cols |-> SliceIndices(x1, x2, w)]

\* A get_lama_model whose failed load is not remembered.
get_lama_model_retrying(global, load_ok) ==
    IF global = "None"
    THEN [global |-> IF load_ok THEN "big-lama" ELSE "None",
          model |-> IF load_ok THEN "big-lama" ELSE "fallback",
          loads |-> 1]
    ELSE [global |-> global, model |-> global, loads |-> 0]

\* get_lama_model: the new value of the global _lama_model, the dict returned
\* ("big-lama" for the loaded model, "fallback" for {"fallback": True}) and
\* the number of load attempts made.  Every exception of the load is caught.
get_lama_model(global, load_ok) ==
    IF global = "None"
    THEN [global |-> IF load_ok THEN "big-lama" ELSE "fallback",
          model |-> IF load_ok THEN "big-lama" ELSE "fallback",
          loads |-> 1]
    ELSE [global |-> global, model |-> global, loads |-> 0]

\* inpaint_frame's choice between _fallback_inpaint and the LAMA model.
Backend(fallback) == IF fallback THEN "opencv" ELSE "lama"

\* A frame of the input video, and the frame inpaint_frame makes of it.
Frame(i) == [id |-> i, inpainted_by |-> "none"]
Inpainted(frame, backend) == [frame EXCEPT !.inpainted_by = backend]

\* The detection dicts inpaint_video is given: what detect_video produces.
NotDetected == detect_frame(<<>>)
DetectionInputs ==
    {NotDetected,
     detect_frame(<<[conf |-> 50, xyxy |-> BBoxA]>>),
     SetFilled(NotDetected, BBoxB)}

\* zip(frames, detections) stops at the shorter list.
ZipLen(fs, ds) == Min(Len(fs), Len(ds))

\* WatermarkInpainter(): __init__ calls get_lama_model.
NewInpainter(load_ok) ==
    /\ ip_pc \in {"none", "returned", "raised"}
    /\ inpainters < MaxInpainters
    /\ inpainters' = inpainters + 1
    /\ LET got == get_lama_model(lama_model, load_ok)
       IN  /\ lama_model' = got.global
           /\ use_fallback' = (got.model = "fallback")
           /\ lama_loads' = lama_loads + got.loads
    /\ ip_pc' = "ready"
    /\ iv_frames' = <<>>
    /\ iv_detections' = <<>>
    /\ iv_results' = <<>>
    /\ inpaint_calls' = <<>>
    /\ UNCHANGED <<dv_vars, pl_vars, sv_vars, cr_vars, mk_vars, sr_vars, ml_vars, df_vars, pd_vars, fp_vars>>

\* inpaint_video(frames, detections) is called, one detection per frame.
IV_Call(ds) ==
    /\ ip_pc = "ready"
    /\ iv_frames' = [i \in 1..Len(ds) |-> Frame(i)]
    /\ iv_detections' = ds
    /\ iv_results' = <<>>
    /\ inpaint_calls' = <<>>
    /\ ip_pc' = "loop"
    /\ UNCHANGED <<inpainters, lama_model, use_fallback, lama_loads>>
    /\ UNCHANGED <<dv_vars, pl_vars, sv_vars, cr_vars, mk_vars, sr_vars, ml_vars, df_vars, pd_vars, fp_vars>>

\* A loop body that keeps the original frame when inpaint_frame fails.
IV_FrameSkippingFailures(ok) ==
    /\ ip_pc = "loop"
    /\ Len(iv_results) < ZipLen(iv_frames, iv_detections)
    /\ LET idx == Len(iv_results) + 1
           frame == iv_frames[idx]
           detection == iv_detections[idx]
       IN  IF detection["detected"] /\ detection["bbox"] # None
           THEN /\ inpaint_calls' = Append(inpaint_calls,
                      [frame |-> idx, backend |-> Backend(use_fallback),
                       mask |-> create_mask(FrameShape, detection["bbox"], DefaultPadding),
                       ok |-> ok])
                /\ iv_results' = Append(iv_results,
                      IF ok THEN Inpainted(frame, Backend(use_fallback)) ELSE frame)
           ELSE /\ iv_results' = Append(iv_results, frame)
                /\ UNCHANGED inpaint_calls
    /\ UNCHANGED <<ip_pc, inpainters, lama_model, use_fallback, iv_frames, iv_detections,
                   lama_loads>>
    /\ UNCHANGED <<dv_vars, pl_vars, sv_vars, cr_vars, mk_vars, sr_vars, ml_vars, df_vars, pd_vars, fp_vars>>

\* A loop body that builds the mask from the bbox of the list's first
\* detection instead of the frame's own.
IV_FrameFirstBBox(ok) ==
    /\ ip_pc = "loop"
    /\ Len(iv_results) < ZipLen(iv_frames, iv_detections)
    /\ LET idx == Len(iv_results) + 1
           frame == iv_frames[idx]
           detection == iv_detections[idx]
           first == iv_detections[1]
           bbox == IF first["bbox"] # None THEN first["bbox"] ELSE detection["bbox"]
       IN  IF detection["detected"] /\ detection["bbox"] # None
           THEN /\ inpaint_calls' = Append(inpaint_calls,
                      [frame |-> idx, backend |-> Backend(use_fallback),
                       mask |-> create_mask(FrameShape, bbox, DefaultPadding),
                       ok |-> ok])
                /\ IF ok
                   THEN /\ iv_results' = Append(iv_results,
                                                Inpainted(frame, Backend(use_fallback)))
                        /\ UNCHANGED ip_pc
                   ELSE /\ ip_pc' = "raised"
                        /\ UNCHANGED iv_results
           ELSE /\ iv_results' = Append(iv_results, frame)
                /\ UNCHANGED <<ip_pc, inpaint_calls>>
    /\ UNCHANGED <<inpainters, lama_model, use_fallback, iv_frames, iv_detections,
                   lama_loads>>
    /\ UNCHANGED <<dv_vars, pl_vars, sv_vars, cr_vars, mk_vars, sr_vars, ml_vars, df_vars, pd_vars, fp_vars>>

\* One iteration of inpaint_video's loop.  inpaint_frame either returns the
\* inpainted frame (ok) or raises, and nothing in inpaint_video catches it.
IV_Frame(ok) ==
    /\ ip_pc = "loop"
    /\ Len(iv_results) < ZipLen(iv_frames, iv_detections)
    /\ LET idx == Len(iv_results) + 1
           frame == iv_frames[idx]
           detection == iv_detections[idx]
       IN  IF detection["detected"] /\ detection["bbox"] # None
           THEN /\ inpaint_calls' = Append(inpaint_calls,
                      [frame |-> idx, backend |-> Backend(use_fallback),
                       mask |-> create_mask(FrameShape, detection["bbox"], DefaultPadding),
                       ok |-> ok])
                /\ IF ok
                   THEN /\ iv_results' = Append(iv_results,
                                                Inpainted(frame, Backend(use_fallback)))
                        /\ UNCHANGED ip_pc
                   ELSE /\ ip_pc' = "raised"
                        /\ UNCHANGED iv_results
           ELSE /\ iv_results' = Append(iv_results, frame)
                /\ UNCHANGED <<ip_pc, inpaint_calls>>
    /\ UNCHANGED <<inpainters, lama_model, use_fallback, iv_frames, iv_detections,
                   lama_loads>>
    /\ UNCHANGED <<dv_vars, pl_vars, sv_vars, cr_vars, mk_vars, sr_vars, ml_vars, df_vars, pd_vars, fp_vars>>

\* inpaint_video returns results.
IV_Return ==
    /\ ip_pc = "loop"
    /\ Len(iv_results) = ZipLen(iv_frames, iv_detections)
    /\ ip_pc' = "returned"
    /\ UNCHANGED <<inpainters, lama_model, use_fallback, iv_frames, iv_detections,
                   iv_results, lama_loads, inpaint_calls>>
    /\ UNCHANGED <<dv_vars, pl_vars, sv_vars, cr_vars, mk_vars, sr_vars, ml_vars, df_vars, pd_vars, fp_vars>>

InitInpaint ==
    /\ ip_pc = "none"
    /\ inpainters = 0
    /\ lama_model = "None"
    /\ use_fallback = FALSE
    /\ iv_frames = <<>>
    /\ iv_detections = <<>>
    /\ iv_results = <<>>
    /\ lama_loads = 0
    /\ inpaint_calls = <<>>

SeqsUpTo(S, n) == UNION {[1..k -> S] : k \in 0..n}

NextInpaint ==
    \/ \E load_ok \in BOOLEAN : NewInpainter(load_ok)
    \/ \E ds \in SeqsUpTo(DetectionInputs, MaxFrames) : IV_Call(ds)
    \/ \E ok \in BOOLEAN : IV_Frame(ok)
    \/ IV_Return

\* ------------------------------------- processor.py: save_video_frames
\* save_video_frames(frames, ...) is called; an empty list raises ValueError
\* (processor.py:170-171).
SV_Call(n) ==
    /\ sv_pc = "idle"
    /\ sv_frames' = [i \in 1..n |-> Frame(i)]
    /\ IF n = 0
       THEN sv_pc' = "raised" /\ sv_error' = "ValueError"
       ELSE sv_pc' = "start" /\ sv_error' = ""
    /\ UNCHANGED <<sv_written, encoder, stdin_closed, will_encode, temp_file,
                   output_file, mux_result>>
    /\ UNCHANGED <<dv_vars, pl_vars, ip_vars, cr_vars, mk_vars, sr_vars, ml_vars, df_vars, pd_vars, fp_vars>>

\* processor.py:179-185, run_async: the encoder process starts, or the ffmpeg
\* program cannot be started and Popen raises.  produces says whether this
\* encoder run is one that writes the temporary video.
SV_RunAsync(started, produces) ==
    /\ sv_pc = "start"
    /\ IF started
       THEN /\ encoder' = "running"
            /\ will_encode' = produces
            /\ sv_pc' = "write"
            /\ UNCHANGED sv_error
       ELSE /\ sv_pc' = "raised"
            /\ sv_error' = "FileNotFoundError"
            /\ UNCHANGED <<encoder, will_encode>>
    /\ UNCHANGED <<sv_frames, sv_written, stdin_closed, temp_file, output_file,
                   mux_result>>
    /\ UNCHANGED <<dv_vars, pl_vars, ip_vars, cr_vars, mk_vars, sr_vars, ml_vars, df_vars, pd_vars, fp_vars>>

\* processor.py:187-188, one process.stdin.write(frame.tobytes()).  An encoder
\* that gave up has closed its end of the pipe, and the write raises.
SV_WriteFrame(pipe_ok) ==
    /\ sv_pc = "write"
    /\ Len(sv_written) < Len(sv_frames)
    /\ IF pipe_ok \/ will_encode
       THEN /\ sv_written' = Append(sv_written, sv_frames[Len(sv_written) + 1])
            /\ UNCHANGED <<sv_pc, sv_error, encoder>>
       ELSE /\ sv_pc' = "raised"
            /\ sv_error' = "BrokenPipeError"
            /\ encoder' = "exited"
            /\ UNCHANGED sv_written
    /\ UNCHANGED <<sv_frames, stdin_closed, will_encode, temp_file, output_file,
                   mux_result>>
    /\ UNCHANGED <<dv_vars, pl_vars, ip_vars, cr_vars, mk_vars, sr_vars, ml_vars, df_vars, pd_vars, fp_vars>>

\* processor.py:190, process.stdin.close() after the loop.
SV_CloseStdin ==
    /\ sv_pc = "write"
    /\ Len(sv_written) = Len(sv_frames)
    /\ stdin_closed' = TRUE
    /\ sv_pc' = "wait"
    /\ UNCHANGED <<sv_frames, sv_written, encoder, will_encode, temp_file, output_file,
                   sv_error, mux_result>>
    /\ UNCHANGED <<dv_vars, pl_vars, ip_vars, cr_vars, mk_vars, sr_vars, ml_vars, df_vars, pd_vars, fp_vars>>

\* A step that goes on to the merge without waiting for the encoder.
SV_WaitNotWaiting ==
    /\ sv_pc = "wait"
    /\ UNCHANGED encoder
    /\ temp_file' = IF will_encode THEN "silent_video" ELSE temp_file
    /\ sv_pc' = "mux"
    /\ UNCHANGED <<sv_frames, sv_written, stdin_closed, will_encode, output_file,
                   sv_error, mux_result>>
    /\ UNCHANGED <<dv_vars, pl_vars, ip_vars, cr_vars, mk_vars, sr_vars, ml_vars, df_vars, pd_vars, fp_vars>>

\* processor.py:191, process.wait(): the encoder has exited, leaving the
\* temporary video or nothing; its exit status is not looked at.
SV_Wait ==
    /\ sv_pc = "wait"
    /\ encoder' = "exited"
    /\ temp_file' = IF will_encode THEN "silent_video" ELSE temp_file
    /\ sv_pc' = "mux"
    /\ UNCHANGED <<sv_frames, sv_written, stdin_closed, will_encode, output_file,
                   sv_error, mux_result>>
    /\ UNCHANGED <<dv_vars, pl_vars, ip_vars, cr_vars, mk_vars, sr_vars, ml_vars, df_vars, pd_vars, fp_vars>>

\* A merge step without the except branch.
SV_MuxUnguarded(audio_ok) ==
    /\ sv_pc = "mux"
    /\ IF audio_ok /\ temp_file # "absent"
       THEN /\ mux_result' = "ok"
            /\ output_file' = "muxed"
            /\ temp_file' = "absent"
            /\ sv_pc' = "returned"
            /\ UNCHANGED sv_error
       ELSE /\ mux_result' = "failed"
            /\ sv_pc' = "raised"
            /\ sv_error' = "ffmpeg.Error"
            /\ UNCHANGED <<temp_file, output_file>>
    /\ UNCHANGED <<sv_frames, sv_written, encoder, stdin_closed, will_encode>>
    /\ UNCHANGED <<dv_vars, pl_vars, ip_vars, cr_vars, mk_vars, sr_vars, ml_vars, df_vars, pd_vars, fp_vars>>

\* A merge step whose except branch renames only a file that is there.
SV_MuxForgiving(audio_ok) ==
    /\ sv_pc = "mux"
    /\ IF audio_ok /\ temp_file # "absent"
       THEN /\ mux_result' = "ok"
            /\ output_file' = "muxed"
            /\ temp_file' = "absent"
       ELSE /\ mux_result' = "failed"
            /\ output_file' = IF temp_file # "absent" THEN temp_file ELSE output_file
            /\ temp_file' = "absent"
    /\ sv_pc' = "returned"
    /\ UNCHANGED <<sv_frames, sv_written, encoder, stdin_closed, will_encode, sv_error>>
    /\ UNCHANGED <<dv_vars, pl_vars, ip_vars, cr_vars, mk_vars, sr_vars, ml_vars, df_vars, pd_vars, fp_vars>>

\* processor.py:193-211, the merge of the original audio.  The ffmpeg run
\* needs the temporary video and an audio stream in the input (audio_ok); on
\* success the temporary file is removed, on any exception it is renamed to
\* output_path, and os.rename of a file that is not there raises
\* FileNotFoundError out of the except branch.
SV_Mux(audio_ok) ==
    /\ sv_pc = "mux"
    /\ IF audio_ok /\ temp_file # "absent"
       THEN /\ mux_result' = "ok"
            /\ output_file' = "muxed"
            /\ temp_file' = "absent"
            /\ sv_pc' = "returned"
            /\ UNCHANGED sv_error
       ELSE /\ mux_result' = "failed"
            /\ IF temp_file # "absent"
               THEN /\ output_file' = temp_file
                    /\ temp_file' = "absent"
                    /\ sv_pc' = "returned"
                    /\ UNCHANGED sv_error
               ELSE /\ sv_pc' = "raised"
                    /\ sv_error' = "FileNotFoundError"
                    /\ UNCHANGED <<temp_file, output_file>>
    /\ UNCHANGED <<sv_frames, sv_written, encoder, stdin_closed, will_encode>>
    /\ UNCHANGED <<dv_vars, pl_vars, ip_vars, cr_vars, mk_vars, sr_vars, ml_vars, df_vars, pd_vars, fp_vars>>

\* The caller is done with this call; the next one works in a fresh job
\* directory.
SV_Done ==
    /\ sv_pc \in {"returned", "raised"}
    /\ sv_pc' = "idle"
    /\ sv_frames' = <<>>
    /\ sv_written' = <<>>
    /\ encoder' = "none"
    /\ stdin_closed' = FALSE
    /\ will_encode' = FALSE
    /\ temp_file' = "absent"
    /\ output_file' = "absent"
    /\ sv_error' = ""
    /\ mux_result' = ""
    /\ UNCHANGED <<dv_vars, pl_vars, ip_vars, cr_vars, mk_vars, sr_vars, ml_vars, df_vars, pd_vars, fp_vars>>

InitSave ==
    /\ sv_pc = "idle"
    /\ sv_frames = <<>>
    /\ sv_written = <<>>
    /\ encoder = "none"
    /\ stdin_closed = FALSE
    /\ will_encode = FALSE
    /\ temp_file = "absent"
    /\ output_file = "absent"
    /\ sv_error = ""
    /\ mux_result = ""

NextSave ==
    \/ \E n \in 0..MaxFrames : SV_Call(n)
    \/ \E started, produces \in BOOLEAN : SV_RunAsync(started, produces)
    \/ \E pipe_ok \in BOOLEAN : SV_WriteFrame(pipe_ok)
    \/ SV_CloseStdin
    \/ SV_Wait
    \/ \E audio_ok \in BOOLEAN : SV_Mux(audio_ok)
    \/ SV_Done

\* ------------------------------------------- processor.py: process_crop
\* Sizes of input videos, crop amounts (process()'s default among them) and
\* edge names process() is called with.
MaxDim == 3
FullHD == <<1920, 1080>>
DefaultCropPixels == 100
InputSizes == {<<w, h>> : w \in 1..MaxDim, h \in 1..MaxDim} \cup {FullHD}
CropAmounts == (0 - 1)..(MaxDim + 1) \cup {DefaultCropPixels}
Edges == {"top", "bottom", "left", "right"}
CropPositions == Edges \cup {"center"}

\* A crop filter whose top case starts at row 0.
CropFilterTopFromOrigin(w, h, p, position) ==
    CASE position = "bottom" -> [w |-> w, h |-> h - p, x |-> 0, y |-> 0]
      [] position = "top"    -> [w |-> w, h |-> h - p, x |-> 0, y |-> 0]
      [] position = "left"   -> [w |-> w - p, h |-> h, x |-> p, y |-> 0]
      [] position = "right"  -> [w |-> w - p, h |-> h, x |-> 0, y |-> 0]
      [] OTHER               -> [w |-> w, h |-> h - p, x |-> 0, y |-> 0]

\* processor.py:231-241, the crop filter string "crop=w:h:x:y".
CropFilter(w, h, p, position) ==
    CASE position = "bottom" -> [w |-> w, h |-> h - p, x |-> 0, y |-> 0]
      [] position = "top"    -> [w |-> w, h |-> h - p, x |-> 0, y |-> p]
      [] position = "left"   -> [w |-> w - p, h |-> h, x |-> p, y |-> 0]
      [] position = "right"  -> [w |-> w - p, h |-> h, x |-> 0, y |-> 0]
      [] OTHER               -> [w |-> w, h |-> h - p, x |-> 0, y |-> 0]

\* processor.py:259-262, the output_size of the result dict.
OutputSize(w, h, p, position) ==
    << IF position \in {"left", "right"} THEN w - p ELSE w,
       IF position \in {"top", "bottom"} THEN h - p ELSE h >>

\* The ffmpeg run of processor.py:246-252 on an input of the given size: the
\* crop filter is refused when the size it names is not positive or is larger
\* than the input; otherwise the output holds the rectangle it names, its
\* origin moved back into the input where it would stick out.
FfmpegAccepts(f, size) ==
    /\ 0 < f.w /\ f.w <= size[1]
    /\ 0 < f.h /\ f.h <= size[2]

FfmpegCrop(f, size) ==
    LET x == Max(0, Min(f.x, size[1] - f.w))
        y == Max(0, Min(f.y, size[2] - f.h))
    IN  [rows |-> y..(y + f.h - 1), cols |-> x..(x + f.w - 1)]

\* process() in mode CROP hands its arguments to process_crop
\* (processor.py:353-354, 213-224).
Crop_Call(size, p, position) ==
    /\ cr_pc = "idle"
    /\ cr_input' = size
    /\ crop_pixels' = p
    /\ crop_position' = position
    /\ cr_pc' = "L226"
    /\ UNCHANGED <<width, height, crop_filter, ffmpeg_runs, cr_output, cr_result,
                   cr_error>>
    /\ UNCHANGED <<dv_vars, pl_vars, ip_vars, sv_vars, mk_vars, sr_vars, ml_vars, df_vars, pd_vars, fp_vars>>

\* processor.py:226-229, ffmpeg.probe and the first video stream's size; the
\* probe raises for a file it cannot read.
Crop_Probe(ok) ==
    /\ cr_pc = "L226"
    /\ IF ok
       THEN /\ width' = cr_input[1]
            /\ height' = cr_input[2]
            /\ cr_pc' = "L231"
            /\ UNCHANGED cr_error
       ELSE /\ cr_pc' = "raised"
            /\ cr_error' = "ffmpeg.Error"
            /\ UNCHANGED <<width, height>>
    /\ UNCHANGED <<cr_input, crop_pixels, crop_position, crop_filter, ffmpeg_runs,
                   cr_output, cr_result>>
    /\ UNCHANGED <<dv_vars, pl_vars, ip_vars, sv_vars, mk_vars, sr_vars, ml_vars, df_vars, pd_vars, fp_vars>>

\* processor.py:231-243.
Crop_BuildFilter ==
    /\ cr_pc = "L231"
    /\ crop_filter' = CropFilter(width, height, crop_pixels, crop_position)
    /\ cr_pc' = "L246"
    /\ UNCHANGED <<cr_input, crop_pixels, crop_position, width, height, ffmpeg_runs,
                   cr_output, cr_result, cr_error>>
    /\ UNCHANGED <<dv_vars, pl_vars, ip_vars, sv_vars, mk_vars, sr_vars, ml_vars, df_vars, pd_vars, fp_vars>>

\* processor.py:246-252, the ffmpeg run with vf=crop_filter.  ok is FALSE for
\* a run that fails for a reason of its own (codec, disk).
Crop_RunFfmpeg(ok) ==
    /\ cr_pc = "L246"
    /\ ffmpeg_runs' = ffmpeg_runs + 1
    /\ IF ok /\ FfmpegAccepts(crop_filter, cr_input)
       THEN /\ cr_output' = FfmpegCrop(crop_filter, cr_input)
            /\ cr_pc' = "L254"
            /\ UNCHANGED cr_error
       ELSE /\ cr_pc' = "raised"
            /\ cr_error' = "ffmpeg.Error"
            /\ UNCHANGED cr_output
    /\ UNCHANGED <<cr_input, crop_pixels, crop_position, width, height, crop_filter,
                   cr_result>>
    /\ UNCHANGED <<dv_vars, pl_vars, ip_vars, sv_vars, mk_vars, sr_vars, ml_vars, df_vars, pd_vars, fp_vars>>

\* processor.py:254-263.
Crop_Return ==
    /\ cr_pc = "L254"
    /\ cr_result' = [mode |-> "crop",
                     crop_pixels |-> crop_pixels,
                     crop_position |-> crop_position,
                     original_size |-> <<width, height>>,
                     output_size |-> OutputSize(width, height, crop_pixels,
                                                crop_position)]
    /\ cr_pc' = "returned"
    /\ UNCHANGED <<cr_input, crop_pixels, crop_position, width, height, crop_filter,
                   ffmpeg_runs, cr_output, cr_error>>
    /\ UNCHANGED <<dv_vars, pl_vars, ip_vars, sv_vars, mk_vars, sr_vars, ml_vars, df_vars, pd_vars, fp_vars>>

\* The caller is done with this call.
Crop_Done ==
    /\ cr_pc \in {"returned", "raised"}
    /\ cr_pc' = "idle"
    /\ cr_input' = None
    /\ crop_pixels' = 0
    /\ crop_position' = ""
    /\ width' = None
    /\ height' = None
    /\ crop_filter' = None
    /\ ffmpeg_runs' = 0
    /\ cr_output' = None
    /\ cr_result' = None
    /\ cr_error' = ""
    /\ UNCHANGED <<dv_vars, pl_vars, ip_vars, sv_vars, mk_vars, sr_vars, ml_vars, df_vars, pd_vars, fp_vars>>

InitCrop ==
    /\ cr_pc = "idle"
    /\ cr_input = None
    /\ crop_pixels = 0
    /\ crop_position = ""
    /\ width = None
    /\ height = None
    /\ crop_filter = None
    /\ ffmpeg_runs = 0
    /\ cr_output = None
    /\ cr_result = None
    /\ cr_error = ""

NextCrop ==
    \/ \E size \in InputSizes, p \in CropAmounts, position \in CropPositions :
           Crop_Call(size, p, position)
    \/ \E ok \in BOOLEAN : Crop_Probe(ok)
    \/ Crop_BuildFilter
    \/ \E ok \in BOOLEAN : Crop_RunFfmpeg(ok)
    \/ Crop_Return
    \/ Crop_Done

\* ------------------------------------------- inpainter.py: create_mask
\* Frame sizes, paddings and bbox coordinates create_mask is called with: the
\* coordinates reach beyond the frame on both sides.
MaxSide == 2
MaxPad == 1
Coords == (0 - 2)..(MaxSide + 1)
MaskBBoxes == {b \in Coords \X Coords \X Coords \X Coords : b[1] < b[3] /\ b[2] < b[4]}

\* inpainter.py:107-112, a call of create_mask.
Mask_Call(h, w, bbox, padding) ==
    /\ mk_pc = "idle"
    /\ mk_frame_shape' = <<h, w>>
    /\ mk_bbox' = bbox
    /\ mk_padding' = padding
    /\ mk_pc' = "called"
    /\ UNCHANGED mk_mask
    /\ UNCHANGED <<dv_vars, pl_vars, ip_vars, sv_vars, cr_vars, sr_vars, ml_vars, df_vars, pd_vars, fp_vars>>

\* inpainter.py:124-135.
Mask_Create ==
    /\ mk_pc = "called"
    /\ mk_mask' = create_mask(mk_frame_shape, mk_bbox, mk_padding)
    /\ mk_pc' = "returned"
    /\ UNCHANGED <<mk_frame_shape, mk_bbox, mk_padding>>
    /\ UNCHANGED <<dv_vars, pl_vars, ip_vars, sv_vars, cr_vars, sr_vars, ml_vars, df_vars, pd_vars, fp_vars>>

\* The caller is done with the mask.
Mask_Done ==
    /\ mk_pc = "returned"
    /\ mk_pc' = "idle"
    /\ mk_frame_shape' = None
    /\ mk_bbox' = None
    /\ mk_padding' = 0
    /\ mk_mask' = None
    /\ UNCHANGED <<dv_vars, pl_vars, ip_vars, sv_vars, cr_vars, sr_vars, ml_vars, df_vars, pd_vars, fp_vars>>

InitMask ==
    /\ mk_pc = "idle"
    /\ mk_frame_shape = None
    /\ mk_bbox = None
    /\ mk_padding = 0
    /\ mk_mask = None

NextMask ==
    \/ \E h \in 1..MaxSide, w \in 1..MaxSide, bbox \in MaskBBoxes, padding \in 0..MaxPad :
           Mask_Call(h, w, bbox, padding)
    \/ Mask_Create
    \/ Mask_Done

\* ------------------------------------------------------------- server.py
\* The job ids clients use, and the mode strings they send: the three values
\* of ProcessingMode (processor.py:23-27) and one that is none of them.
JobIds == {"job-a"}
ProcessingModes == {"crop", "inpaint", "auto"}
ModeStrings == ProcessingModes \cup {"blur"}

\* dict assignment and del on a dict held as a function on its keys.
Put(d, k, v) == [x \in (DOMAIN d) \cup {k} |-> IF x = k THEN v ELSE d[x]]
Del(d, k) == [x \in (DOMAIN d) \ {k} |-> d[x]]

\* The values process() hands to progress_callback before it ends
\* (processor.py:278-286; process_crop calls no callback), and whether it can
\* return: process_inpaint raises at its detect_video call (processor.py:290).
ProgressValues(m) == IF m \in {"inpaint", "auto"} THEN <<5, 15>> ELSE <<>>
CanReturn(m, dir) == m = "crop" /\ dir = "input"

\* The three dicts the handlers store for a job.
Failed(e) == [progress |-> 0, status |-> "failed", error |-> e]
Completed(result, path) ==
    [progress |-> 100, status |-> "completed", result |-> result, output_path |-> path]
CompletedSync(result) == [progress |-> 100, status |-> "completed", result |-> result]

\* server.py:212-276, POST /process/async: the upload is saved, the job is
\* stored as queued and process_task is handed to the background tasks.  One
\* task per job id is followed at a time.
Submit_Async(j, m) ==
    /\ task_pc[j] \in {"none", "done"}
    /\ job_dir' = [job_dir EXCEPT ![j] = "input"]
    /\ job_progress' = Put(job_progress, j, [progress |-> 0, status |-> "queued"])
    /\ task_pc' = [task_pc EXCEPT ![j] = "queued"]
    /\ task_mode' = [task_mode EXCEPT ![j] = m]
    /\ task_emits' = [task_emits EXCEPT ![j] = <<>>]
    /\ process_failed' = [process_failed EXCEPT ![j] = FALSE]
    /\ handed' = [handed EXCEPT ![j] = FALSE]
    /\ cleaned' = [cleaned EXCEPT ![j] = FALSE]
    /\ UNCHANGED <<response>>
    /\ UNCHANGED <<dv_vars, pl_vars, ip_vars, sv_vars, cr_vars, mk_vars, ml_vars, df_vars, pd_vars, fp_vars>>

\* The thread pool starts process_task.
Task_Run(j) ==
    /\ task_pc[j] = "queued"
    /\ task_pc' = [task_pc EXCEPT ![j] = "L246"]
    /\ UNCHANGED <<job_progress, job_dir, task_mode, task_emits, process_failed, handed,
                   cleaned, response>>
    /\ UNCHANGED <<dv_vars, pl_vars, ip_vars, sv_vars, cr_vars, mk_vars, ml_vars, df_vars, pd_vars, fp_vars>>

\* server.py:246, job_progress[job_id]["status"] = "processing"; a KeyError
\* goes to the except branch.
Task_Processing(j) ==
    /\ task_pc[j] = "L246"
    /\ IF j \in DOMAIN job_progress
       THEN /\ job_progress' = [job_progress EXCEPT ![j].status = "processing"]
            /\ task_pc' = [task_pc EXCEPT ![j] = "L251"]
       ELSE /\ task_pc' = [task_pc EXCEPT ![j] = "except"]
            /\ UNCHANGED job_progress
    /\ UNCHANGED <<job_dir, task_mode, task_emits, process_failed, handed, cleaned,
                   response>>
    /\ UNCHANGED <<dv_vars, pl_vars, ip_vars, sv_vars, cr_vars, mk_vars, ml_vars, df_vars, pd_vars, fp_vars>>

\* server.py:251-252, VideoProcessor(mode=ProcessingMode(mode)) and the call
\* of process(); ProcessingMode raises ValueError for a string that is not a
\* mode.
Task_CallProcess(j) ==
    /\ task_pc[j] = "L251"
    /\ IF task_mode[j] \in ProcessingModes
       THEN /\ task_pc' = [task_pc EXCEPT ![j] = "process"]
            /\ task_emits' = [task_emits EXCEPT ![j] = ProgressValues(task_mode[j])]
       ELSE /\ task_pc' = [task_pc EXCEPT ![j] = "except"]
            /\ UNCHANGED task_emits
    /\ UNCHANGED <<job_progress, job_dir, task_mode, process_failed, handed, cleaned,
                   response>>
    /\ UNCHANGED <<dv_vars, pl_vars, ip_vars, sv_vars, cr_vars, mk_vars, ml_vars, df_vars, pd_vars, fp_vars>>

\* server.py:248-249, progress_callback called from inside process(); its
\* KeyError leaves process() and goes to the except branch.
Task_ProgressCallback(j) ==
    /\ task_pc[j] = "process"
    /\ task_emits[j] # <<>>
    /\ task_emits' = [task_emits EXCEPT ![j] = Tail(task_emits[j])]
    /\ IF j \in DOMAIN job_progress
       THEN /\ job_progress' = [job_progress EXCEPT ![j].progress = Head(task_emits[j])]
            /\ UNCHANGED <<task_pc, process_failed>>
       ELSE /\ task_pc' = [task_pc EXCEPT ![j] = "except"]
            /\ process_failed' = [process_failed EXCEPT ![j] = TRUE]
            /\ UNCHANGED job_progress
    /\ UNCHANGED <<job_dir, task_mode, handed, cleaned, response>>
    /\ UNCHANGED <<dv_vars, pl_vars, ip_vars, sv_vars, cr_vars, mk_vars, ml_vars, df_vars, pd_vars, fp_vars>>

\* server.py:252-258, process() ends: it returns its result, the output file
\* written, or it raises, maybe leaving a part of the output file.
Task_ProcessEnds(j, ok, partial) ==
    /\ task_pc[j] = "process"
    /\ task_emits[j] = <<>>
    /\ IF ok /\ CanReturn(task_mode[j], job_dir[j])
       THEN /\ task_pc' = [task_pc EXCEPT ![j] = "L260"]
            /\ job_dir' = [job_dir EXCEPT ![j] = "output"]
            /\ UNCHANGED process_failed
       ELSE /\ task_pc' = [task_pc EXCEPT ![j] = "except"]
            /\ process_failed' = [process_failed EXCEPT ![j] = TRUE]
            /\ job_dir' = [job_dir EXCEPT ![j] =
                              IF partial /\ task_mode[j] = "crop" /\ job_dir[j] = "input"
                              THEN "partial" ELSE job_dir[j]]
    /\ UNCHANGED <<job_progress, task_mode, task_emits, handed, cleaned,
                   response>>
    /\ UNCHANGED <<dv_vars, pl_vars, ip_vars, sv_vars, cr_vars, mk_vars, ml_vars, df_vars, pd_vars, fp_vars>>

\* server.py:260-265.
Task_Completed(j) ==
    /\ task_pc[j] = "L260"
    /\ job_progress' = Put(job_progress, j, Completed(task_mode[j], j))
    /\ task_pc' = [task_pc EXCEPT ![j] = "done"]
    /\ UNCHANGED <<job_dir, task_mode, task_emits, process_failed, handed, cleaned,
                   response>>
    /\ UNCHANGED <<dv_vars, pl_vars, ip_vars, sv_vars, cr_vars, mk_vars, ml_vars, df_vars, pd_vars, fp_vars>>

\* server.py:266-272.
Task_Failed(j) ==
    /\ task_pc[j] = "except"
    /\ job_progress' = Put(job_progress, j, Failed("error"))
    /\ task_pc' = [task_pc EXCEPT ![j] = "done"]
    /\ UNCHANGED <<job_dir, task_mode, task_emits, process_failed, handed, cleaned,
                   response>>
    /\ UNCHANGED <<dv_vars, pl_vars, ip_vars, sv_vars, cr_vars, mk_vars, ml_vars, df_vars, pd_vars, fp_vars>>

\* server.py:128-209, POST /process: the handler runs process() itself, on
\* the event loop, so no other handler runs before it has answered.  It ends
\* with the job stored as completed and the file sent, or stored as failed.
Process_Sync(j, m, ok) ==
    /\ task_pc[j] \in {"none", "done"}
    /\ task_mode' = [task_mode EXCEPT ![j] = m]
    /\ cleaned' = [cleaned EXCEPT ![j] = FALSE]
    /\ IF m \in ProcessingModes /\ ok /\ CanReturn(m, "input")
       THEN /\ job_progress' = Put(job_progress, j, CompletedSync(m))
            /\ job_dir' = [job_dir EXCEPT ![j] = "output"]
            /\ process_failed' = [process_failed EXCEPT ![j] = FALSE]
            /\ handed' = [handed EXCEPT ![j] = TRUE]
       ELSE /\ job_progress' = Put(job_progress, j, Failed("error"))
            /\ job_dir' = [job_dir EXCEPT ![j] = "input"]
            /\ process_failed' = [process_failed EXCEPT ![j] = m \in ProcessingModes]
            /\ handed' = [handed EXCEPT ![j] = FALSE]
    /\ UNCHANGED <<task_pc, task_emits, response>>
    /\ UNCHANGED <<dv_vars, pl_vars, ip_vars, sv_vars, cr_vars, mk_vars, ml_vars, df_vars, pd_vars, fp_vars>>

\* server.py:279-285, GET /status/{job_id}.
Get_Job_Status(j) ==
    /\ response' =
           IF j \notin DOMAIN job_progress
           THEN [from |-> "status", code |-> 404, job_id |-> j]
           ELSE [from |-> "status", code |-> 200, job_id |-> j,
                 status |-> job_progress[j].status,
                 progress |-> job_progress[j].progress]
    /\ UNCHANGED <<job_progress, job_dir, task_pc, task_mode, task_emits, process_failed,
                   handed, cleaned>>
    /\ UNCHANGED <<dv_vars, pl_vars, ip_vars, sv_vars, cr_vars, mk_vars, ml_vars, df_vars, pd_vars, fp_vars>>

\* A download handler that looks at the file only.
Download_Result_Unchecked(j) ==
    /\ IF j \notin DOMAIN job_progress
       THEN response' = [from |-> "download", code |-> 404, job_id |-> j] /\ UNCHANGED handed
       ELSE IF job_dir[j] \notin {"output", "partial"}
       THEN response' = [from |-> "download", code |-> 404, job_id |-> j] /\ UNCHANGED handed
       ELSE /\ response' = [from |-> "download", code |-> 200, job_id |-> j,
                             status |-> job_progress[j].status, file |-> job_dir[j]]
            /\ handed' = [handed EXCEPT ![j] = TRUE]
    /\ UNCHANGED <<job_progress, job_dir, task_pc, task_mode, task_emits, process_failed,
                   cleaned>>
    /\ UNCHANGED <<dv_vars, pl_vars, ip_vars, sv_vars, cr_vars, mk_vars, ml_vars, df_vars, pd_vars, fp_vars>>

\* server.py:288-310, GET /download/{job_id}.  The answer with the file
\* records the status the handler read and the file it sent.
Download_Result(j) ==
    /\ IF j \notin DOMAIN job_progress
       THEN response' = [from |-> "download", code |-> 404, job_id |-> j] /\ UNCHANGED handed
       ELSE IF job_progress[j].status # "completed"
       THEN response' = [from |-> "download", code |-> 400, job_id |-> j] /\ UNCHANGED handed
       ELSE IF "output_path" \notin DOMAIN job_progress[j]
               \/ job_dir[job_progress[j].output_path] \notin {"output", "partial"}
       THEN response' = [from |-> "download", code |-> 404, job_id |-> j] /\ UNCHANGED handed
       ELSE /\ response' = [from |-> "download", code |-> 200, job_id |-> j,
                             status |-> job_progress[j].status, file |-> job_dir[j]]
            /\ handed' = [handed EXCEPT ![j] = TRUE]
    /\ UNCHANGED <<job_progress, job_dir, task_pc, task_mode, task_emits, process_failed,
                   cleaned>>
    /\ UNCHANGED <<dv_vars, pl_vars, ip_vars, sv_vars, cr_vars, mk_vars, ml_vars, df_vars, pd_vars, fp_vars>>

\* server.py:313-324, DELETE /cleanup/{job_id}.
Cleanup_Job(j) ==
    /\ job_dir' = [job_dir EXCEPT ![j] = "absent"]
    /\ job_progress' = Del(job_progress, j)
    /\ cleaned' = [cleaned EXCEPT ![j] = TRUE]
    /\ UNCHANGED <<task_pc, task_mode, task_emits, process_failed, handed,
                   response>>
    /\ UNCHANGED <<dv_vars, pl_vars, ip_vars, sv_vars, cr_vars, mk_vars, ml_vars, df_vars, pd_vars, fp_vars>>

\* runpod_handler.py:47-158, handler(event): a missing video and every
\* exception of process() give an error record; the video is read from the
\* output file only after process() has returned.  The temporary directory
\* is the handler's own.
Runpod_Handler(has_video, m, ok, partial) ==
    /\ response' =
           IF ~has_video THEN [from |-> "runpod", error |-> "Missing video_base64 in input"]
           ELSE IF m \notin ProcessingModes THEN [from |-> "runpod", error |-> "ValueError"]
           ELSE IF ok /\ CanReturn(m, "input")
           THEN [from |-> "runpod", video_base64 |-> "output", stats |-> m]
           ELSE [from |-> "runpod", error |-> "error"]
    /\ UNCHANGED <<job_progress, job_dir, task_pc, task_mode, task_emits, process_failed,
                   handed, cleaned>>
    /\ UNCHANGED <<dv_vars, pl_vars, ip_vars, sv_vars, cr_vars, mk_vars, ml_vars, df_vars, pd_vars, fp_vars>>

InitServer ==
    /\ job_progress = <<>>
    /\ job_dir = [j \in JobIds |-> "absent"]
    /\ task_pc = [j \in JobIds |-> "none"]
    /\ task_mode = [j \in JobIds |-> ""]
    /\ task_emits = [j \in JobIds |-> <<>>]
    /\ process_failed = [j \in JobIds |-> FALSE]
    /\ handed = [j \in JobIds |-> FALSE]
    /\ cleaned = [j \in JobIds |-> FALSE]
    /\ response = None

NextServer ==
    \/ \E j \in JobIds, m \in ModeStrings : Submit_Async(j, m)
    \/ \E j \in JobIds : Task_Run(j)
    \/ \E j \in JobIds : Task_Processing(j)
    \/ \E j \in JobIds : Task_CallProcess(j)
    \/ \E j \in JobIds : Task_ProgressCallback(j)
    \/ \E j \in JobIds, ok, partial \in BOOLEAN : Task_ProcessEnds(j, ok, partial)
    \/ \E j \in JobIds : Task_Completed(j)
    \/ \E j \in JobIds : Task_Failed(j)
    \/ \E j \in JobIds, m \in ModeStrings, ok \in BOOLEAN : Process_Sync(j, m, ok)
    \/ \E j \in JobIds : Get_Job_Status(j)
    \/ \E j \in JobIds : Download_Result(j)
    \/ \E j \in JobIds : Cleanup_Job(j)
    \/ \E has_video, ok, partial \in BOOLEAN, m \in ModeStrings :
           Runpod_Handler(has_video, m, ok, partial)

\* ----------------------- detector.py, inpainter.py: the lazy model globals
\* The threads that run process_task for concurrent jobs (server.py:274: a
\* background task that is a plain function runs in the thread pool).
MaxThreads == 2
Threads == 1..MaxThreads
ModelFunctions == {"yolo", "lama"}

\* A job's thread enters get_yolo_model (detector.py:43, from
\* WatermarkDetector.__init__) or get_lama_model (inpainter.py:70, from
\* WatermarkInpainter.__init__).
ML_Call(t, f) ==
    /\ ml_pc[t] = "idle"
    /\ ml_fn' = [ml_fn EXCEPT ![t] = f]
    /\ ml_pc' = [ml_pc EXCEPT ![t] = "check"]
    /\ UNCHANGED <<ml_held, ml_global, ml_loads>>
    /\ UNCHANGED <<dv_vars, pl_vars, ip_vars, sv_vars, cr_vars, mk_vars, sr_vars, df_vars, pd_vars, fp_vars>>

\* detector.py:46 and inpainter.py:73, `if _model is None`.
ML_Check(t) ==
    /\ ml_pc[t] = "check"
    /\ ml_pc' = [ml_pc EXCEPT ![t] =
                     IF ml_global[ml_fn[t]] = 0 THEN "load" ELSE "return"]
    /\ UNCHANGED <<ml_fn, ml_held, ml_global, ml_loads>>
    /\ UNCHANGED <<dv_vars, pl_vars, ip_vars, sv_vars, cr_vars, mk_vars, sr_vars, df_vars, pd_vars, fp_vars>>

\* detector.py:47-55: the weights are fetched, the model is built and
\* assigned to the global; a failure raises and leaves the global None.
\* inpainter.py:74-95: the same, but every failure is caught and the global
\* is set to a new {"fallback": True}.
ML_Load(t, ok) ==
    /\ ml_pc[t] = "load"
    /\ IF ok
       THEN /\ ml_global' = [ml_global EXCEPT ![ml_fn[t]] = t]
            /\ ml_loads' = [ml_loads EXCEPT ![ml_fn[t]] = @ + 1]
            /\ ml_pc' = [ml_pc EXCEPT ![t] = "return"]
       ELSE IF ml_fn[t] = "lama"
       THEN /\ ml_global' = [ml_global EXCEPT !["lama"] = 0 - t]
            /\ ml_pc' = [ml_pc EXCEPT ![t] = "return"]
            /\ UNCHANGED ml_loads
       ELSE /\ ml_pc' = [ml_pc EXCEPT ![t] = "raised"]
            /\ UNCHANGED <<ml_global, ml_loads>>
    /\ UNCHANGED <<ml_fn, ml_held>>
    /\ UNCHANGED <<dv_vars, pl_vars, ip_vars, sv_vars, cr_vars, mk_vars, sr_vars, df_vars, pd_vars, fp_vars>>

\* detector.py:57 and inpainter.py:97, `return _model`: the global as it is
\* now.
ML_Return(t) ==
    /\ ml_pc[t] = "return"
    /\ ml_held' = [ml_held EXCEPT ![t] = ml_global[ml_fn[t]]]
    /\ ml_pc' = [ml_pc EXCEPT ![t] = "done"]
    /\ UNCHANGED <<ml_fn, ml_global, ml_loads>>
    /\ UNCHANGED <<dv_vars, pl_vars, ip_vars, sv_vars, cr_vars, mk_vars, sr_vars, df_vars, pd_vars, fp_vars>>

InitModels ==
    /\ ml_pc = [t \in Threads |-> "idle"]
    /\ ml_fn = [t \in Threads |-> ""]
    /\ ml_held = [t \in Threads |-> 0]
    /\ ml_global = [f \in ModelFunctions |-> 0]
    /\ ml_loads = [f \in ModelFunctions |-> 0]

NextModels ==
    \/ \E t \in Threads, f \in ModelFunctions : ML_Call(t, f)
    \/ \E t \in Threads : ML_Check(t)
    \/ \E t \in Threads, ok \in BOOLEAN : ML_Load(t, ok)
    \/ \E t \in Threads : ML_Return(t)

\* ------------------------------------------- detector.py: detect_frame
\* What the model can return for a frame: up to MaxCandidates candidates with
\* a confidence below, at or above the threshold, ordered as the model orders
\* them, by descending confidence.
MaxCandidates == 3
Candidates ==
    {[conf |-> c, xyxy |-> b] : c \in Confidences \cup {confidence_threshold + 1},
                                b \in BBoxes}
RECURSIVE CandidateLists(_)
CandidateLists(n) ==
    IF n = 0 THEN {<<>>}
    ELSE LET shorter == CandidateLists(n - 1)
         IN  shorter \cup
             {Append(l, c) : l \in {k \in shorter : Len(k) = n - 1}, c \in Candidates}
FrameOutputs ==
    {l \in CandidateLists(MaxCandidates) :
        \A i \in 1..(Len(l) - 1) : l[i].conf >= l[i + 1].conf}

\* detector.py:81-82, the model is run on the frame.
DF_Call(boxes) ==
    /\ df_pc = "idle"
    /\ df_boxes' = boxes
    /\ df_pc' = "called"
    /\ UNCHANGED df_result
    /\ UNCHANGED <<dv_vars, pl_vars, ip_vars, sv_vars, cr_vars, mk_vars, sr_vars, ml_vars, pd_vars, fp_vars>>

\* detector.py:84-113.
DF_Return ==
    /\ df_pc = "called"
    /\ df_result' = detect_frame(df_boxes)
    /\ df_pc' = "returned"
    /\ UNCHANGED df_boxes
    /\ UNCHANGED <<dv_vars, pl_vars, ip_vars, sv_vars, cr_vars, mk_vars, sr_vars, ml_vars, pd_vars, fp_vars>>

\* The caller is done with the result.
DF_Done ==
    /\ df_pc = "returned"
    /\ df_pc' = "idle"
    /\ df_boxes' = <<>>
    /\ df_result' = None
    /\ UNCHANGED <<dv_vars, pl_vars, ip_vars, sv_vars, cr_vars, mk_vars, sr_vars, ml_vars, pd_vars, fp_vars>>

InitFrame ==
    /\ df_pc = "idle"
    /\ df_boxes = <<>>
    /\ df_result = None

NextFrame ==
    \/ \E boxes \in FrameOutputs : DF_Call(boxes)
    \/ DF_Return
    \/ DF_Done

\* ------------------------------ inpainter.py: inpaint_frame, model path
\* inpainter.py:188-189, the stride the LAMA model needs.
LamaStride == 8

\* The index of the source element that numpy.pad(..., mode='reflect') copies
\* to index i of an axis of length n padded at its end: the axis mirrored
\* about its last element, again and again; an axis of length 1 repeats its
\* only element.
ReflectIndex(i, n) ==
    IF n = 1 THEN 0
    ELSE LET period == 2 * (n - 1)
             m == i % period
         IN  IF m < n THEN m ELSE period - m

\* WatermarkInpainter._pad_to_mod on an array of shape (h, w, c): the padded
\* shape and, per element of the padded array, the element it is a copy of.
pad_to_mod(shape, mod) ==
    LET h == shape[1]
        w == shape[2]
        pad_h == (mod - (h % mod)) % mod
        pad_w == (mod - (w % mod)) % mod
    IN  [shape |-> <<h + pad_h, w + pad_w>>,
         src |-> [px \in (0..(h + pad_h - 1)) \X (0..(w + pad_w - 1)) |->
                      <<ReflectIndex(px[1], h), ReflectIndex(px[2], w)>>]]

\* inpaint_frame(frame, mask) with use_fallback false (inpainter.py:158-185):
\* frame and mask have shape (h, w); marked are the pixels of mask above 0.
Pad_Call(h, w, marked) ==
    /\ pd_pc = "idle"
    /\ pd_shape' = <<h, w>>
    /\ pd_mask' = marked
    /\ pd_pc' = "L188"
    /\ UNCHANGED <<image_padded, mask_padded, pd_result>>
    /\ UNCHANGED <<dv_vars, pl_vars, ip_vars, sv_vars, cr_vars, mk_vars, sr_vars, ml_vars, df_vars, fp_vars>>

\* inpainter.py:188.
Pad_Image ==
    /\ pd_pc = "L188"
    /\ image_padded' = pad_to_mod(pd_shape, LamaStride)
    /\ pd_pc' = "L189"
    /\ UNCHANGED <<pd_shape, pd_mask, mask_padded, pd_result>>
    /\ UNCHANGED <<dv_vars, pl_vars, ip_vars, sv_vars, cr_vars, mk_vars, sr_vars, ml_vars, df_vars, fp_vars>>

\* inpainter.py:189 and 193: the mask goes through the same _pad_to_mod, and
\* mask_binary marks the elements of the padded mask above 0.
Pad_Mask ==
    /\ pd_pc = "L189"
    /\ LET padded == pad_to_mod(pd_shape, LamaStride)
       IN  mask_padded' = [shape |-> padded.shape,
                           marked |-> {px \in DOMAIN padded.src :
                                           padded.src[px] \in pd_mask}]
    /\ pd_pc' = "L192"
    /\ UNCHANGED <<pd_shape, pd_mask, image_padded, pd_result>>
    /\ UNCHANGED <<dv_vars, pl_vars, ip_vars, sv_vars, cr_vars, mk_vars, sr_vars, ml_vars, df_vars, fp_vars>>

\* inpainter.py:195-213: the model runs on the padded tensors and its output
\* is cut back with result_np[:h, :w, :].
Pad_InferAndCrop ==
    /\ pd_pc = "L192"
    /\ pd_result' = <<Min(pd_shape[1], image_padded.shape[1]),
                      Min(pd_shape[2], image_padded.shape[2])>>
    /\ pd_pc' = "returned"
    /\ UNCHANGED <<pd_shape, pd_mask, image_padded, mask_padded>>
    /\ UNCHANGED <<dv_vars, pl_vars, ip_vars, sv_vars, cr_vars, mk_vars, sr_vars, ml_vars, df_vars, fp_vars>>

\* The caller is done with the frame.
Pad_Done ==
    /\ pd_pc = "returned"
    /\ pd_pc' = "idle"
    /\ pd_shape' = None
    /\ pd_mask' = {}
    /\ image_padded' = None
    /\ mask_padded' = None
    /\ pd_result' = None
    /\ UNCHANGED <<dv_vars, pl_vars, ip_vars, sv_vars, cr_vars, mk_vars, sr_vars, ml_vars, df_vars, fp_vars>>

InitPad ==
    /\ pd_pc = "idle"
    /\ pd_shape = None
    /\ pd_mask = {}
    /\ image_padded = None
    /\ mask_padded = None
    /\ pd_result = None

NextPad ==
    \/ \E h \in 1..MaxSide, w \in 1..MaxSide :
           \E marked \in SUBSET ((0..(h - 1)) \X (0..(w - 1))) : Pad_Call(h, w, marked)
    \/ Pad_Image
    \/ Pad_Mask
    \/ Pad_InferAndCrop
    \/ Pad_Done

\* -------------------------------------- processor.py: frame_progress
\* Python floats are IEEE 754 binary64 numbers.  A positive one is held here
\* as [sig, frac]: sig its 53 significand bits, highest first, and frac the
\* number of those bits (and of zeros before them, when frac > 53) that lie
\* behind the binary point; its value is the integer sig times 2^(-frac).
SignificandBits == 53

\* (rem * 2^i) mod t: what is left of rem / t after i bits of its binary
\* expansion, for 0 <= rem < t.
RECURSIVE Remainder(_, _, _)
Remainder(rem, t, i) == IF i = 0 THEN rem ELSE (2 * Remainder(rem, t, i - 1)) % t

\* The first n bits of the binary expansion of rem / t, and the remainder
\* left after them.
Expand(rem, t, n) ==
    [bits |-> [i \in 1..n |-> IF 2 * Remainder(rem, t, i - 1) >= t THEN 1 ELSE 0],
     rem |-> Remainder(rem, t, n)]

\* The zeros between the binary point and the first 1 of rem / t, 0 < rem < t.
RECURSIVE LeadingZeros(_, _)
LeadingZeros(rem, t) == IF 2 * rem >= t THEN 0 ELSE 1 + LeadingZeros(2 * rem, t)

RECURSIVE Pow2(_)
Pow2(n) == IF n = 0 THEN 1 ELSE 2 * Pow2(n - 1)

\* bits + 1, as a sequence one longer when every bit was 1.
Increment(bits) ==
    LET zeros == {i \in 1..Len(bits) : bits[i] = 0}
    IN  IF zeros = {} THEN [i \in 1..(Len(bits) + 1) |-> IF i = 1 THEN 1 ELSE 0]
        ELSE LET k == CHOOSE i \in zeros : \A j \in zeros : j <= i
             IN  [i \in 1..Len(bits) |->
                     IF i < k THEN bits[i] ELSE IF i = k THEN 1 ELSE 0]

\* Round-to-nearest-even of the integer `bits` followed by discarded lower
\* bits: up says that the discarded part is above a half, or is a half and
\* the last kept bit is 1.  dropped is the number of bits discarded.
Rounded(bits, up, frac) ==
    LET inc == IF up THEN Increment(bits) ELSE bits
    IN  IF Len(inc) > Len(bits)
        THEN [sig |-> SubSeq(inc, 1, Len(bits)), frac |-> frac - 1]
        ELSE [sig |-> inc, frac |-> frac]

\* The float current / total for 0 < current < total.
FloatDivide(current, total) ==
    LET z == LeadingZeros(current, total)
        e == Expand(current * Pow2(z), total, SignificandBits)
        last == e.bits[SignificandBits]
        up == 2 * e.rem > total \/ (2 * e.rem = total /\ last = 1)
    IN  Rounded(e.bits, up, z + SignificandBits)

\* The bit of weight 2^j of the integer `bits` (highest bit first).
BitAt(bits, j) == IF j < Len(bits) THEN bits[Len(bits) - j] ELSE 0

\* What the bits of weight below 2^j carry into weight 2^j in bits * k.
RECURSIVE Carry(_, _, _)
Carry(bits, k, j) ==
    IF j = 0 THEN 0
    ELSE (BitAt(bits, j - 1) * k + Carry(bits, k, j - 1)) \div 2

\* The integer bits * k for 0 < k < 128 and bits not zero, highest bit first.
TimesSmall(bits, k) ==
    LET out(j) == (BitAt(bits, j) * k + Carry(bits, k, j)) % 2
        top == CHOOSE j \in 0..(Len(bits) + 7) :
                   /\ out(j) = 1
                   /\ \A h \in (j + 1)..(Len(bits) + 7) : out(h) = 0
    IN  [i \in 1..(top + 1) |-> out(top + 1 - i)]

\* The float x * k for a float x and a small integer k.
FloatTimes(x, k) ==
    LET product == TimesSmall(x.sig, k)
        extra == Len(product) - SignificandBits
        kept == SubSeq(product, 1, SignificandBits)
        guard == product[SignificandBits + 1]
        sticky == \E i \in (SignificandBits + 2)..Len(product) : product[i] = 1
        up == guard = 1 /\ (sticky \/ kept[SignificandBits] = 1)
    IN  IF extra <= 0 THEN [sig |-> product, frac |-> x.frac]
        ELSE Rounded(kept, up, x.frac - extra)

RECURSIVE BitsToInt(_)
BitsToInt(bits) ==
    IF bits = <<>> THEN 0
    ELSE 2 * BitsToInt(SubSeq(bits, 1, Len(bits) - 1)) + bits[Len(bits)]

\* int(x) for a float x below 2^31.
FloatToInt(x) ==
    LET whole == Len(x.sig) - x.frac
    IN  IF whole <= 0 THEN 0 ELSE BitsToInt(SubSeq(x.sig, 1, whole))

\* processor.py:73, pct = int((current / total) * 100) if total > 0 else 0,
\* for 0 <= current <= total.
pct(current, total) ==
    IF total > 0
    THEN IF current = 0 THEN 0
         ELSE IF current = total THEN 100
         ELSE FloatToInt(FloatTimes(FloatDivide(current, total), 100))
    ELSE 0

\* processor.py:83, the test under which the message is logged.
ShouldLog(current, total) ==
    \/ current % Max(1, total \div 10) = 0
    \/ current % 25 = 0
    \/ current = total

\* The totals frame_progress is called with: short videos, and two longer
\* ones for which 10% of the total is more than a frame.
ProgressTotals == (0..MaxFrames) \cup {30, 50}

\* frame_progress(current, total) is called (processor.py:69).
FP_Call(current, total) ==
    /\ fp_pc = "idle"
    /\ fp_current' = current
    /\ fp_total' = total
    /\ fp_pc' = "L71"
    /\ UNCHANGED <<fp_status, fp_pct, fp_logged>>
    /\ UNCHANGED <<dv_vars, pl_vars, ip_vars, sv_vars, cr_vars, mk_vars, sr_vars, ml_vars, df_vars, pd_vars>>

\* processor.py:71-80 (the clock readings fps and eta are left out).
FP_Compute ==
    /\ fp_pc = "L71"
    /\ fp_status' = [processed_frames |-> fp_current, total_frames |-> fp_total]
    /\ fp_pct' = <<pct(fp_current, fp_total)>>
    /\ fp_pc' = "L83"
    /\ UNCHANGED <<fp_current, fp_total, fp_logged>>
    /\ UNCHANGED <<dv_vars, pl_vars, ip_vars, sv_vars, cr_vars, mk_vars, sr_vars, ml_vars, df_vars, pd_vars>>

\* processor.py:83-84.
FP_Log ==
    /\ fp_pc = "L83"
    /\ fp_logged' =
           IF ShouldLog(fp_current, fp_total)
           THEN Append(fp_logged,
                       [current |-> fp_current, total |-> fp_total, pct |-> fp_pct[1]])
           ELSE fp_logged
    /\ fp_pc' = "returned"
    /\ UNCHANGED <<fp_current, fp_total, fp_status, fp_pct>>
    /\ UNCHANGED <<dv_vars, pl_vars, ip_vars, sv_vars, cr_vars, mk_vars, sr_vars, ml_vars, df_vars, pd_vars>>

\* The caller is done with this call.
FP_Done ==
    /\ fp_pc = "returned"
    /\ fp_pc' = "idle"
    /\ fp_current' = 0
    /\ fp_total' = 0
    /\ fp_status' = [processed_frames |-> 0, total_frames |-> 0]
    /\ fp_pct' = None
    /\ fp_logged' = <<>>
    /\ UNCHANGED <<dv_vars, pl_vars, ip_vars, sv_vars, cr_vars, mk_vars, sr_vars, ml_vars, df_vars, pd_vars>>

InitProgress ==
    /\ fp_pc = "idle"
    /\ fp_current = 0
    /\ fp_total = 0
    /\ fp_status = [processed_frames |-> 0, total_frames |-> 0]
    /\ fp_pct = None
    /\ fp_logged = <<>>

NextProgress ==
    \/ \E total \in ProgressTotals : \E current \in 0..total : FP_Call(current, total)
    \/ FP_Compute
    \/ FP_Log
    \/ FP_Done

InitDetect ==
    /\ dv_pc = "idle"
    /\ dv_frames = 0
    /\ observed = <<>>
    /\ results = <<>>
    /\ missed_indices = <<>>
    /\ bbox_centers = <<>>
    /\ direct = <<>>

NextDetect ==
    \/ \E n \in 0..MaxFrames : DV_Call(n)
    \/ \E boxes \in ModelOutputs : DV_DetectFrame(boxes)
    \/ DV_SecondPass
    \/ DV_Done

\* The detector and the inpainter put together as process_inpaint puts them
\* (processor.py:290 and 305): one video goes through detect_video, and its
\* frames go to inpaint_video with the detections detect_video returned.
Chain_NewInpainter(load_ok) ==
    /\ dv_pc = "returned"
    /\ inpainters = 0
    /\ NewInpainter(load_ok)

Chain_InpaintVideo ==
    /\ dv_pc = "returned"
    /\ IV_Call(results)

NextChain ==
    \/ \E n \in 0..MaxFrames : DV_Call(n)
    \/ \E boxes \in ModelOutputs : DV_DetectFrame(boxes)
    \/ DV_SecondPass
    \/ \E load_ok \in BOOLEAN : Chain_NewInpainter(load_ok)
    \/ Chain_InpaintVideo
    \/ \E ok \in BOOLEAN : IV_Frame(ok)
    \/ IV_Return

Init == InitDetect /\ InitPipeline /\ InitInpaint /\ InitSave /\ InitCrop
        /\ InitMask /\ InitServer /\ InitModels
        /\ InitFrame /\ InitPad /\ InitProgress

Spec == Init /\ [][Next]_vars

SpecDetect == Init /\ [][NextDetect]_vars

SpecInpaint == Init /\ [][NextInpaint]_vars

SpecChain == Init /\ [][NextChain]_vars

SpecSave == Init /\ [][NextSave]_vars

SpecCrop == Init /\ [][NextCrop]_vars

SpecMask == Init /\ [][NextMask]_vars

SpecServer == Init /\ [][NextServer]_vars

SpecModels == Init /\ [][NextModels]_vars

SpecFrame == Init /\ [][NextFrame]_vars

SpecPad == Init /\ [][NextPad]_vars

SpecProgress == Init /\ [][NextProgress]_vars

\* ------------------------------------------------- claims: the gap-filler
SetMax(S) == CHOOSE x \in S : \A y \in S : y <= x
SetMin(S) == CHOOSE x \in S : \A y \in S : x <= y

\* What the model itself saw on frame i, read off its output and not off the
\* detector's result list.
DirectlyDetected(i) ==
    /\ observed[i] # <<>>
    /\ observed[i][1].conf >= confidence_threshold
DirectBBox(i) == observed[i][1].xyxy
EarlierDirect(i) == {j \in 1..(i - 1) : DirectlyDetected(j)}
LaterDirect(i) == {j \in (i + 1)..dv_frames : DirectlyDetected(j)}
IsInterpolated(d) == "interpolated" \in DOMAIN d /\ d["interpolated"]

\* Scenario A of the specification: 10 frames, each with a box of its own,
\* the model missing frames 3..6 (here 4..7).
ScenarioA ==
    [k \in 1..10 |->
        IF k \in 4..7 THEN <<>>
        ELSE <<[conf |-> 90, xyxy |-> <<k, k, k + 10, k + 10>>]>>]

StillMissed(res) ==
    SelectSeq([i \in 1..Len(res) |-> i], LAMBDA i : ~res[i]["detected"])

\* C10: when every frame is directly detected the gap-filler leaves the list
\* as direct detection produced it, and filling its own output again changes
\* nothing, with the missed indices of the first pass or with those of the
\* output.
C10_AllDetectedUnchangedAndIdempotent ==
    dv_pc = "returned" =>
        /\ (\A i \in 1..dv_frames : DirectlyDetected(i)) => results = direct
        /\ fill_missed_detections(results, missed_indices) = results
        /\ SecondPass(results, StillMissed(results)) = results

\* C10 witness: a returned list of at least two frames, all directly
\* detected, not all with the same box.
C10_Witness ==
    /\ dv_pc = "returned"
    /\ dv_frames >= 2
    /\ \A i \in 1..dv_frames : DirectlyDetected(i)
    /\ \E i, j \in 1..dv_frames : DirectBBox(i) # DirectBBox(j)

\* --------------------------------------------------- claims: the pipeline
\* process() is over: it raised, or returned its result.
RunEnded == pc \in {"raised", "returned"}

\* The exceptions that are a failure of the detection, inpainting or codec
\* capability.
CapabilityFailures == {"ModelLoadError"}

IsPrefix(s, t) == Len(s) <= Len(t) /\ SubSeq(t, 1, Len(s)) = s
IsSuffix(s, t) == Len(s) <= Len(t) /\ SubSeq(t, Len(t) - Len(s) + 1, Len(t)) = s
NonDecreasing(s) == \A i \in 1..(Len(s) - 1) : s[i] <= s[i + 1]
Elements(s) == {s[i] : i \in 1..Len(s)}

\* C1: an INPAINT or AUTO run on an input with at least one frame, with no
\* failure of a capability, ends by returning a result, the job at stage
\* "complete" with progress 100, the stages having been passed in order.
C1_InpaintRunCompletes ==
    (RunEnded /\ mode \in {"inpaint", "auto"} /\ Len(frames) >= 1
        /\ error \notin CapabilityFailures)
    => /\ pc = "returned"
       /\ status.current_stage = "complete"
       /\ status.progress = 100
       /\ IsSuffix(<<"loading", "detecting", "inpainting", "encoding", "complete">>,
                   stage_history)
          \/ IsSuffix(<<"loading", "detecting", "skipped", "encoding", "complete">>,
                      stage_history)

\* C3: a run in which no frame is detected goes from "detecting" to "skipped",
\* "encoding" and "complete" and returns a result with watermarks_detected = 0.
C3_NothingDetectedSkipsToComplete ==
    (RunEnded /\ error \notin CapabilityFailures /\ status.watermarks_detected = 0)
    => /\ pc = "returned"
       /\ IsSuffix(<<"detecting", "skipped", "encoding", "complete">>, stage_history)

\* C6: when an error stops a run the job is left failed: its stage or its
\* summary status is "failed" and its error list is not empty, and summary()
\* does not say "completed" for a run that did not reach stage "complete".
C6_FatalErrorLeavesFailedJob ==
    pc = "raised" =>
        /\ status.current_stage = "failed" \/ summary(status).status = "failed"
        /\ status.errors # <<>>
        /\ summary(status).status = "completed" => status.current_stage = "complete"

\* C7: the values the job's stage takes in a run are a prefix of
\* initializing, loading, detecting, (inpainting or skipped), encoding,
\* complete.
C7_StagesFollowTheOrder ==
    \/ IsPrefix(stage_history,
                <<"initializing", "loading", "detecting", "inpainting", "encoding",
                  "complete">>)
    \/ IsPrefix(stage_history,
                <<"initializing", "loading", "detecting", "skipped", "encoding",
                  "complete">>)

\* C8: within a run the job's progress and the values handed to the progress
\* callback are integers in 0..100 that never decrease, and 100 is set or
\* emitted only once the job is at stage "complete", which follows the encode.
C8_ProgressNeverDecreases ==
    /\ status.progress = progress_history[Len(progress_history)]
    /\ NonDecreasing(progress_history)
    /\ NonDecreasing(emitted)
    /\ Elements(progress_history) \cup Elements(emitted) \subseteq 0..100
    /\ (100 \in Elements(progress_history) \cup Elements(emitted))
        => status.current_stage = "complete"

\* C8 witness: a run with a callback that has raised the progress twice and
\* has called the callback twice.
C8_Witness ==
    /\ RunEnded
    /\ progress_callback
    /\ emitted = <<5, 15>>
    /\ progress_history = <<0, 0, 5, 15>>

\* ------------------------------------------- claims: the inpaint dispatcher
FailedCalls == {k \in 1..Len(inpaint_calls) : ~inpaint_calls[k].ok}

\* C4: when inpaint_frame fails on a detected frame, inpaint_video stops
\* there: the call is the last one made (no retry, no later frame), the
\* failing frame and the frames after it are not in the results, and the
\* caller gets the exception and no frame list.
C4_FrameFailureAbortsRun ==
    \A k \in FailedCalls :
        /\ k = Len(inpaint_calls)
        /\ \A j \in 1..(k - 1) : inpaint_calls[j].frame # inpaint_calls[k].frame
        /\ Len(iv_results) = inpaint_calls[k].frame - 1
        /\ ip_pc = "raised"

\* C4 witness: inpaint_frame failed on a frame that has a detected frame
\* before it and one after it.
C4_Witness ==
    \E k \in FailedCalls :
        /\ k > 1
        /\ \E j \in (inpaint_calls[k].frame + 1)..Len(iv_detections) :
            iv_detections[j]["detected"]

NoneDirectlyDetected == \A i \in 1..dv_frames : ~DirectlyDetected(i)

\* C11: when no frame is directly detected (the empty list included) the
\* gap-filler returns the list as it got it, every entry still not detected,
\* and inpaint_video on those detections returns the input frames themselves,
\* same count and order, without one inpainting call.
C11_NothingDetectedNothingTouched ==
    (dv_pc = "returned" /\ NoneDirectlyDetected) =>
        /\ results = direct
        /\ Len(results) = dv_frames
        /\ \A i \in 1..dv_frames :
            /\ ~results[i]["detected"]
            /\ results[i]["bbox"] = None
            /\ ~IsInterpolated(results[i])
        /\ ip_pc \in {"loop", "returned", "raised"} =>
            /\ inpaint_calls = <<>>
            /\ ip_pc # "raised"
        /\ ip_pc = "returned" =>
            /\ iv_results = iv_frames
            /\ iv_results = [i \in 1..dv_frames |-> Frame(i)]

\* C11 witness: inpaint_video has returned for a video of two or more frames
\* on none of which the detector found a box with enough confidence, though
\* the model proposed one.
C11_Witness ==
    /\ dv_pc = "returned"
    /\ dv_frames >= 2
    /\ NoneDirectlyDetected
    /\ \E i \in 1..dv_frames : observed[i] # <<>>
    /\ ip_pc = "returned"

\* The mask the bbox of a detection calls for: the pixels (y, x) of the frame
\* within the box grown by the padding on every side.
RowsWithin(bbox, padding, h) ==
    {y \in 0..(h - 1) : bbox[2] - padding <= y /\ y < bbox[4] + padding}
ColsWithin(bbox, padding, w) ==
    {x \in 0..(w - 1) : bbox[1] - padding <= x /\ x < bbox[3] + padding}

CallsFor(i) == {k \in 1..Len(inpaint_calls) : inpaint_calls[k].frame = i}

\* C12: inpaint_video returns one frame per input frame in the same order; a
\* frame whose detection is not detected comes back unchanged; for a detected
\* frame exactly one inpainting call was made, by the model or by the
\* fallback, with the mask of that frame's own bbox.
C12_OneCallPerDetectedFrame ==
    (ip_pc = "returned" /\ Len(iv_detections) = Len(iv_frames)) =>
        /\ Len(iv_results) = Len(iv_frames)
        /\ \A i \in 1..Len(iv_frames) :
            /\ iv_results[i].id = iv_frames[i].id
            /\ IF iv_detections[i]["detected"]
               THEN /\ Cardinality(CallsFor(i)) = 1
                    /\ \A k \in CallsFor(i) :
                        /\ inpaint_calls[k].backend \in {"lama", "opencv"}
                        /\ iv_results[i].inpainted_by = inpaint_calls[k].backend
                        /\ inpaint_calls[k].mask.shape = FrameShape
                        /\ inpaint_calls[k].mask.rows =
                            RowsWithin(iv_detections[i]["bbox"], DefaultPadding,
                                       FrameShape[1])
                        /\ inpaint_calls[k].mask.cols =
                            ColsWithin(iv_detections[i]["bbox"], DefaultPadding,
                                       FrameShape[2])
               ELSE /\ CallsFor(i) = {}
                    /\ iv_results[i] = iv_frames[i]

\* C12 witness: inpaint_video has returned for a list with an undetected
\* frame and two detected frames whose boxes differ.
C12_Witness ==
    /\ ip_pc = "returned"
    /\ \E i, j, k \in 1..Len(iv_frames) :
        /\ ~iv_detections[i]["detected"]
        /\ iv_detections[j]["detected"]
        /\ iv_detections[k]["detected"]
        /\ iv_detections[j]["bbox"] # iv_detections[k]["bbox"]


\* ---------------------------------------------------------------- C13
SaveEnded == sv_pc \in {"returned", "raised"}

\* C13: when the encoder wrote the temporary video and the audio merge then
\* failed, save_video_frames returns without raising, the file at output_path
\* is the silent video (every frame, in order) and the temporary file is gone.
C13_MuxFailureKeepsSilentVideo ==
    (SaveEnded /\ mux_result = "failed" /\ will_encode) =>
        /\ sv_pc = "returned"
        /\ sv_error = ""
        /\ output_file = "silent_video"
        /\ temp_file = "absent"
        /\ sv_written = sv_frames

C13_Witness ==
    /\ sv_pc = "returned"
    /\ mux_result = "failed"
    /\ will_encode
    /\ Len(sv_written) >= 2

\* ---------------------------------------------------------------- C14
\* C14: a save_video_frames call that was given frames ends with an exception
\* exactly when no temporary video was produced by the encoder, and then no
\* file is at output_path; whenever the encoder produced it the call returns
\* with a file at output_path.
C14_SaveFailsIffNoEncoderOutput ==
    (SaveEnded /\ Len(sv_frames) > 0) =>
        /\ (sv_pc = "raised") <=> ~(will_encode /\ stdin_closed)
        /\ sv_pc = "raised" => output_file = "absent"
        /\ sv_pc = "returned" => output_file \in {"muxed", "silent_video"}

C14_Witness ==
    /\ sv_pc = "raised"
    /\ Len(sv_frames) > 0
    /\ sv_written = sv_frames
    /\ stdin_closed
    /\ ~will_encode
    /\ sv_error = "FileNotFoundError"


\* ---------------------------------------------------------------- C15
\* The positions of process_inpaint after load_video_frames has returned.
AfterLoad == pc \in {"L285", "L289", "L290", "L290_call", "L294", "raised", "returned"}

\* The progress of the loading stage (processor.py:277).
LoadingProgress == status.progress <= 5

\* C15: once loading has yielded zero frames the run has failed with a decode
\* error: stage "detecting" is never entered and neither the job's progress nor
\* a value given to the callback goes beyond the loading value.
C15_EmptyInputFailsWhileLoading ==
    (AfterLoad /\ Len(frames) = 0) =>
        /\ pc = "raised"
        /\ error = "DecodeError"
        /\ "detecting" \notin Elements(stage_history)
        /\ LoadingProgress
        /\ \A v \in Elements(emitted) : v <= 5


\* ---------------------------------------------------------------- C16
CropEnded == cr_pc \in {"returned", "raised"}

\* The dimension crop_position names: the height for top and bottom, the
\* width for left and right.
CroppedDimension == IF crop_position \in {"top", "bottom"} THEN cr_input[2] ELSE cr_input[1]

\* C16: a process_crop call whose crop amount exceeds the dimension being
\* cropped never starts an ffmpeg run, ends with an invalid-options error, and
\* returns no result whose output_size has a component that is not positive.
C16_CropBeyondDimensionRejected ==
    (cr_pc # "idle" /\ crop_position \in Edges /\ crop_pixels > CroppedDimension) =>
        /\ ffmpeg_runs = 0
        /\ CropEnded => (cr_pc = "raised" /\ cr_error = "InvalidModeOptionsError")
        /\ cr_pc = "returned" =>
               (cr_result.output_size[1] > 0 /\ cr_result.output_size[2] > 0)

\* ---------------------------------------------------------------- C17
\* The rectangle the claim names for an edge: its size, and the rows and
\* columns of the W x H input it keeps.
EdgeSize(W, H, p, edge) == IF edge \in {"top", "bottom"} THEN <<W, H - p>> ELSE <<W - p, H>>
EdgeRows(W, H, p, edge) ==
    CASE edge = "bottom" -> {y \in 0..(H - 1) : y < H - p}
      [] edge = "top"    -> {y \in 0..(H - 1) : y >= p}
      [] OTHER           -> 0..(H - 1)
EdgeCols(W, H, p, edge) ==
    CASE edge = "left"   -> {x \in 0..(W - 1) : x >= p}
      [] edge = "right"  -> {x \in 0..(W - 1) : x < W - p}
      [] OTHER           -> 0..(W - 1)

CropInRange ==
    /\ cr_pc # "idle"
    /\ crop_position \in Edges
    /\ 0 <= crop_pixels
    /\ crop_pixels < CroppedDimension

\* C17: for an edge and a crop amount p with 0 <= p < the cropped dimension,
\* the filter process_crop builds names the rectangle of the edge's size, the
\* output keeps exactly the rows and columns that leave out the p pixels on
\* that edge, and the returned output_size is the rectangle's size; a
\* 1920x1080 input cropped by 100 at the bottom gives 1920x980.
C17_CropRectangleRemovesNamedEdge ==
    CropInRange =>
        LET W == cr_input[1]
            H == cr_input[2]
            p == crop_pixels
        IN  /\ cr_pc \in {"L246", "L254", "returned"} =>
                   <<crop_filter.w, crop_filter.h>> = EdgeSize(W, H, p, crop_position)
            /\ cr_pc \in {"L254", "returned"} =>
                   /\ cr_output.rows = EdgeRows(W, H, p, crop_position)
                   /\ cr_output.cols = EdgeCols(W, H, p, crop_position)
            /\ cr_pc = "returned" =>
                   /\ cr_result.output_size = EdgeSize(W, H, p, crop_position)
                   /\ cr_result.output_size =
                          <<Cardinality(cr_output.cols), Cardinality(cr_output.rows)>>
                   /\ (cr_input = <<1920, 1080>> /\ p = 100 /\ crop_position = "bottom")
                          => cr_result.output_size = <<1920, 980>>

C17_Witness ==
    /\ cr_pc = "returned"
    /\ cr_input = <<1920, 1080>>
    /\ crop_pixels = 100
    /\ crop_position = "bottom"
    /\ cr_result.output_size = <<1920, 980>>

\* ---------------------------------------------------------------- C18
\* The pixels (y, x) a mask marks.
Region(mask) == mask.rows \X mask.cols

\* C18: the mask has the frame's size and marks exactly the pixels of the
\* frame inside the bbox grown by the padding, so the marked area is at most
\* the area of the grown box and at most H*W.
C18_MaskIsPaddedBoxWithinFrame ==
    mk_pc = "returned" =>
        LET h == mk_frame_shape[1]
            w == mk_frame_shape[2]
            grown_w == mk_bbox[3] - mk_bbox[1] + 2 * mk_padding
            grown_h == mk_bbox[4] - mk_bbox[2] + 2 * mk_padding
        IN  /\ mk_mask.shape = <<h, w>>
            /\ Region(mk_mask) = RowsWithin(mk_bbox, mk_padding, h)
                                     \X ColsWithin(mk_bbox, mk_padding, w)
            /\ Cardinality(Region(mk_mask)) <= grown_w * grown_h
            /\ Cardinality(Region(mk_mask)) <= h * w

\* ---------------------------------------------------------------- C20
\* The keys of the dict process_inpaint returns (processor.py:329-338).
InpaintResultKeys ==
    {"mode", "job_id", "frames_processed", "watermarks_detected", "original_size",
     "output_size", "elapsed_seconds", "fps"}

\* C20: the record a CROP run returns has the fields of the record an
\* INPAINT or AUTO run returns: mode, frame and detection counts, original and
\* output size, elapsed time and throughput.
C20_ResultFieldsSameInEveryMode ==
    cr_pc = "returned" =>
        /\ DOMAIN cr_result = InpaintResultKeys
        /\ {"mode", "frames_processed", "watermarks_detected", "original_size",
            "output_size", "elapsed_seconds", "fps"} \subseteq DOMAIN cr_result


\* ---------------------------------------------------------------- C19
\* C19: a run on a video with frames in which nothing was detected, no
\* capability having failed, completes, and its summary holds the record of
\* it (no watermark detected) under a status that is not "failed".
C19_NonFatalConditionInSummary ==
    (RunEnded /\ error \notin CapabilityFailures /\ Len(frames) >= 1
        /\ status.watermarks_detected = 0)
    => /\ pc = "returned"
       /\ summary(status).stage = "complete"
       /\ summary(status).progress = 100
       /\ summary(status).watermarks_detected = 0
       /\ summary(status).status # "failed"


\* ---------------------------------------------------------------- C21
\* The last answer came from the named handler.
AnswerOf(handler) == response # None /\ response.from = handler

C22_ModelLoadedOnceAndShared ==
    /\ \A f \in ModelFunctions : ml_loads[f] <= 1
    /\ \A t, u \in Threads :
           (ml_pc[t] = "done" /\ ml_pc[u] = "done" /\ ml_fn[t] = ml_fn[u])
               => ml_held[t] = ml_held[u]


\* ---------------------------------------------------------------- C23
\* C23: the frames written to the encoder are the first frames of the list in
\* index order, and when the audio merge is about to start or has run every
\* frame has been written, the encoder's stdin has been closed and the
\* encoder process has exited.
C23_MuxOnlyAfterEncoderDrained ==
    /\ IsPrefix(sv_written, sv_frames)
    /\ \A i \in 1..Len(sv_written) : sv_written[i].id = i
    /\ (sv_pc = "mux" \/ mux_result # "") =>
           /\ sv_written = sv_frames
           /\ stdin_closed
           /\ encoder = "exited"

C23_Witness ==
    /\ mux_result = "ok"
    /\ Len(sv_written) >= 2
    /\ encoder = "exited"


\* ---------------------------------------------------------------- C24
\* The confidences of the candidates the model returned.
CandidateConfidences == {df_boxes[i].conf : i \in 1..Len(df_boxes)}

\* C24: detect_frame says detected exactly when the model returned a
\* candidate and the highest confidence among the candidates is at least the
\* threshold; a not-detected result has no bbox and no center, a detected one
\* has both, the bbox being that of a candidate with the highest confidence.
C24_DetectedIffBestCandidateReachesThreshold ==
    df_pc = "returned" =>
        /\ df_result.detected <=>
               /\ df_boxes # <<>>
               /\ SetMax(CandidateConfidences) >= confidence_threshold
        /\ ~df_result.detected => (df_result.bbox = None /\ df_result.center = None)
        /\ df_result.detected =>
               /\ df_result.center # None
               /\ \E i \in 1..Len(df_boxes) :
                      /\ df_boxes[i].conf = SetMax(CandidateConfidences)
                      /\ df_result.bbox = df_boxes[i].xyxy

C24_Witness ==
    /\ df_pc = "returned"
    /\ Len(df_boxes) >= 2
    /\ df_boxes[1].conf = confidence_threshold
    /\ df_boxes[2].conf < confidence_threshold
    /\ df_boxes[1].xyxy # df_boxes[2].xyxy
    /\ df_result.detected


\* ---------------------------------------------------------------- C25
\* The pixels of the h x w frame.
FramePixels == (0..(pd_shape[1] - 1)) \X (0..(pd_shape[2] - 1))

\* C25: on the model path the padded image and mask have sides that are
\* multiples of the stride; the image is extended by reflection; the mask is
\* extended with zeros, so that its marked pixels are those of the mask given
\* and none lies in an added row or column; the frame returned is h x w.
C25_MaskPaddedWithZeros ==
    /\ pd_pc \in {"L189", "L192", "returned"} =>
           /\ image_padded.shape[1] % LamaStride = 0
           /\ image_padded.shape[2] % LamaStride = 0
           /\ \A px \in DOMAIN image_padded.src :
                  image_padded.src[px] =
                      <<ReflectIndex(px[1], pd_shape[1]), ReflectIndex(px[2], pd_shape[2])>>
    /\ pd_pc \in {"L192", "returned"} =>
           /\ mask_padded.shape = image_padded.shape
           /\ mask_padded.marked \cap FramePixels = pd_mask
           /\ mask_padded.marked \ FramePixels = {}
    /\ pd_pc = "returned" => pd_result = pd_shape


\* C26: when frame_progress(current, total) has returned, the percentage it
\* computed is floor(100 * current / total), a number of 0..100, for
\* 0 <= current <= total and total > 0, and 0 for total = 0; and it logged a
\* message exactly when current is a multiple of max(1, total div 10), a
\* multiple of 25, or equal to total.
C26_PercentIsFloorAndLoggedOnSchedule ==
    fp_pc = "returned" =>
        /\ fp_pct = <<IF fp_total = 0 THEN 0 ELSE (100 * fp_current) \div fp_total>>
        /\ fp_pct[1] \in 0..100
        /\ (Len(fp_logged) = 1) <=>
               \/ \E n \in 0..fp_current :
                      fp_current = n * (IF fp_total \div 10 >= 1 THEN fp_total \div 10 ELSE 1)
               \/ \E n \in 0..fp_current : fp_current = n * 25
               \/ fp_current = fp_total

\* processor.py:296, the count process_inpaint takes of a detection list.
DetectedCount(detections) ==
    Cardinality({i \in 1..Len(detections) : detections[i]["detected"]})

\* C27: when detect_video has returned, the list has one entry per frame and
\* either every entry is marked detected or none is: all of them when the
\* first pass detected the watermark in at least one frame, none otherwise.
\* The count of detected entries is therefore 0 or the number of frames.
C27_EveryFrameDetectedOrNone ==
    dv_pc = "returned" =>
        /\ Len(results) = dv_frames
        /\ DetectedCount(results) \in {0, dv_frames}
        /\ (\E i \in 1..dv_frames : DirectlyDetected(i))
               => DetectedCount(results) = dv_frames
        /\ (\A i \in 1..dv_frames : ~DirectlyDetected(i))
               => DetectedCount(results) = 0

\* A video of at least three frames in which the first pass found the
\* watermark in some frames and missed it in two or more others, and the
\* returned list marks every frame.
C27_Witness ==
    /\ dv_pc = "returned"
    /\ dv_frames >= 3
    /\ \E i \in 1..dv_frames : DirectlyDetected(i)
    /\ Cardinality({i \in 1..dv_frames : ~DirectlyDetected(i)}) >= 2
    /\ DetectedCount(results) = dv_frames

\* C28: for every crop_position process_crop accepts, the four edges and any
\* other string alike, the output_size of the result it returns is the width
\* and height of the rectangle the crop filter named and ffmpeg cut out.
C28_OutputSizeIsTheAppliedRectangle ==
    cr_pc = "returned" =>
        /\ cr_result.output_size[1] = crop_filter.w
        /\ cr_result.output_size[2] = crop_filter.h
        /\ cr_result.output_size[1] = Cardinality(cr_output.cols)
        /\ cr_result.output_size[2] = Cardinality(cr_output.rows)

\* The order of the statuses of an asynchronous job.
StatusMoves ==
    {<<"queued", "processing">>, <<"processing", "completed">>,
     <<"processing", "failed">>}

\* C29: while the task of an asynchronous job is queued or running and the
\* job stays in the job store, every step leaves its status as it is or moves
\* it along queued -> processing -> (completed | failed), and never lowers
\* the progress that /status reports, the step that marks the job failed
\* included.
C29_StatusForwardProgressNeverDrops ==
    [][\A j \in JobIds :
           (/\ task_pc[j] \notin {"none", "done"}
            /\ j \in DOMAIN job_progress
            /\ j \in DOMAIN job_progress')
           => /\ \/ job_progress'[j].status = job_progress[j].status
                 \/ <<job_progress[j].status, job_progress'[j].status>> \in StatusMoves
              /\ job_progress'[j].progress >= job_progress[j].progress]_vars

\* C30: from the moment cleanup_job(job_id) has returned until a new request
\* with that id is submitted, the job store holds no entry for job_id,
\* whatever the job's task and its callbacks do meanwhile.
C30_CleanedJobStaysRemoved ==
    \A j \in JobIds : cleaned[j] => j \notin DOMAIN job_progress
====
